---- MODULE Spec2Model ----
(***************************************************************************)
(* PepperBot frontend: the shopping-list detail view (ShoppingListDetail)  *)
(* with the REST requests it has in flight, and the discounts page's       *)
(* filter/sort query (DiscountsPage).                                      *)
(*                                                                         *)
(* Strings the code inspects character by character (trim, toLowerCase,    *)
(* includes, parseInt) are sequences of one-character strings; strings it  *)
(* only stores or compares whole are TLA+ strings.                         *)
(***************************************************************************)
EXTENDS Integers, Sequences, FiniteSets, TLC

\* Number of requests one view may issue in a run (each mutation reserves
\* the id of its refetch).
MaxRequests == 6

\* Number of changes to form fields (add-item form and edit form) in a run.
MaxTyped == 1

(***************************************************************************)
(* Values                                                                  *)
(***************************************************************************)

\* null for `list` (useState<ShoppingList | null>(null)).
NoList == [id |-> 0, title |-> ""]

\* null for `editingItem` (useState<ListItem | null>(null)).
NoItem == [id |-> 0, name |-> <<>>, quantity |-> 0, unit |-> "", is_completed |-> FALSE]

\* A request without a body (GET, DELETE).
NoBody == [f \in {} |-> TRUE]

\* JSON null / undefined of an optional string field.
Null == "<null>"

\* Route parameters the router can hand to the view.
ListIdParams == {<<"1">>, <<"2">>}

\* Texts typed into the name fields, the quantity fields and the unit fields.
NameInputs == {<<>>, <<" ">>, <<"m">>, <<" ", "m">>}
QuantityInputs == {"", "2", "0", "-1"}
UnitInputs == {"", "kg"}

Digits == <<"0", "1", "2", "3", "4", "5", "6", "7", "8", "9">>

IsDigit(c) == \E d \in 1..10 : Digits[d] = c

DigitValue(c) == (CHOOSE d \in 1..10 : Digits[d] = c) - 1

\* ECMAScript WhiteSpace and LineTerminator characters among the inputs.
IsWhitespace(c) == c \in {" ", "\t", "\n"}

RECURSIVE TrimStart(_)
TrimStart(s) ==
  IF s = <<>> THEN <<>>
  ELSE IF IsWhitespace(Head(s)) THEN TrimStart(Tail(s))
  ELSE s

RECURSIVE TrimEnd(_)
TrimEnd(s) ==
  IF s = <<>> THEN <<>>
  ELSE IF IsWhitespace(s[Len(s)]) THEN TrimEnd(SubSeq(s, 1, Len(s) - 1))
  ELSE s

\* String.prototype.trim
Trim(s) == TrimEnd(TrimStart(s))

\* parseInt(listId!): the leading decimal digits; -1 stands for NaN.
RECURSIVE ParseDigits(_, _)
ParseDigits(s, acc) ==
  IF s = <<>> \/ ~IsDigit(Head(s)) THEN acc
  ELSE ParseDigits(Tail(s), 10 * acc + DigitValue(Head(s)))

ParseInt(s) ==
  LET t == TrimStart(s)
  IN IF t = <<>> \/ ~IsDigit(Head(t)) THEN -1 ELSE ParseDigits(t, 0)

\* parseFloat(e.target.value) on the texts of QuantityInputs.
ParseFloat(raw) ==
  CASE raw = "2" -> [nan |-> FALSE, val |-> 2]
    [] raw = "0" -> [nan |-> FALSE, val |-> 0]
    [] raw = "-1" -> [nan |-> FALSE, val |-> -1]
    [] OTHER -> [nan |-> TRUE, val |-> 0]

\* `parseFloat(e.target.value) || 1`: NaN and 0 are falsy.
QuantityOrOne(raw) ==
  LET p == ParseFloat(raw)
  IN IF p.nan \/ p.val = 0 THEN 1 ELSE p.val

(***************************************************************************)
(* State                                                                   *)
(***************************************************************************)
VARIABLES
  \* --- ShoppingListDetail ---
  listId,        \* useParams().listId
  mounted,       \* the mount effect has run
  location,      \* "list" while the view is mounted, "dashboard" after navigate
  list,          \* ShoppingList | null
  items,         \* ListItem[]
  isLoading,
  error,
  newItem,       \* the add-item form
  editingItem,   \* the draft slot
  \* --- requests of the view and the backend they reach ---
  pending,       \* requests in flight
  nextId,        \* id of the next request
  srvLists,      \* ids of the lists the backend holds
  srvItems,      \* list id -> the items the backend holds, in order
  srvNextItemId, \* id the backend assigns to the next created item
  \* --- history ---
  nTyped,        \* changes made to form fields so far
  itemsFetch,    \* the items fetch whose response `items` was last set from
  run,           \* since the last mutation that was sent with nothing in
                 \* flight: "single" (nothing else was sent), "mixed" (other
                 \* mutations were sent), "upset" (a request failed or the
                 \* listId changed); "idle" before the first request fails
                 \* or mutation is sent
  \* --- DiscountsPage ---
  discounts,
  filteredDiscounts,
  dIsLoading,
  dError,
  searchTerm,
  selectedStore,
  sortBy,
  dFetch,        \* "idle" | "sent" | "settled": getDiscounts
  dEffect,       \* the effect that recomputes the view is pending
  \* --- ApiClient ---
  apiWire,       \* calls whose request is on the wire
  apiSettled,    \* how the promise of each finished call settled
  apiNextId,     \* id of the next call
  consoleLog,    \* what console.error has printed
  windowLocation, \* the page the browser shows
  \* --- LoginPage ---
  lgRoute,       \* the route the router shows
  lgUsername,
  lgPassword,
  lgError,
  lgLoading,
  lgCall,        \* the login call in flight, if any
  lgAttempts,    \* login calls made so far
  \* --- NotificationsPage and the backend it reaches ---
  nMounted,
  nLocation,     \* "notifications" | "dashboard"
  nNotifications,
  nIsLoading,
  nError,
  nFilter,
  nPending,      \* requests in flight
  nNextId,       \* id of the next request
  nSrv,          \* the notifications the backend holds, in order
  nLastFetch,    \* the fetch whose response `notifications` derives from
  nOk            \* ids marked read / deleted with success since the last fetch

listVars ==
  <<listId, mounted, location, list, items, isLoading, error, newItem,
    editingItem, pending, nextId, srvLists, srvItems, srvNextItemId,
    nTyped, itemsFetch, run>>

discVars ==
  <<discounts, filteredDiscounts, dIsLoading, dError, searchTerm,
    selectedStore, sortBy, dFetch, dEffect>>

apiVars == <<apiWire, apiSettled, apiNextId, consoleLog, windowLocation>>

loginVars ==
  <<lgRoute, lgUsername, lgPassword, lgError, lgLoading, lgCall, lgAttempts>>

notifVars ==
  <<nMounted, nLocation, nNotifications, nIsLoading, nError, nFilter, nPending,
    nNextId, nSrv, nLastFetch, nOk>>

vars == <<listVars, discVars, apiVars, loginVars, notifVars>>

viewVars == <<list, items, isLoading, error, newItem, editingItem>>

srvVars == <<srvLists, srvItems, srvNextItemId>>

(***************************************************************************)
(* Requests                                                                *)
(***************************************************************************)

\* useState({ name: '', quantity: 1, unit: '' })
EmptyForm == [name |-> <<>>, quantity |-> 1, unit |-> ""]

NoFetch == [lid |-> 0, data |-> <<>>]

\* A request as sent. `op` is the handler that sent it, `lid` the
\* parseInt(listId!) of the render the handler closed over, `from` the
\* mutation whose success issued this refetch (empty otherwise).
Request(id, kind, op, lid, item, payload, from) ==
  [id |-> id, kind |-> kind, op |-> op, lid |-> lid, item |-> item,
   payload |-> payload, stage |-> "sent", list |-> NoList, items |-> <<>>,
   from |-> from]

MutationOps == {"addItem", "toggle", "saveEdit", "deleteItem", "deleteList"}

IsMutation(r) == r.kind \in {"createItem", "updateItem", "deleteItem", "deleteList"}

\* apiClient.getShoppingList(parseInt(listId!))
GetListRequest(id, op, lid) == Request(id, "getList", op, lid, 0, NoBody, <<>>)

\* apiClient.getListItems(parseInt(listId!))
GetItemsRequest(id, op, lid, from) == Request(id, "getItems", op, lid, 0, NoBody, from)

(***************************************************************************)
(* The backend, as the REST contract describes it                          *)
(***************************************************************************)

ServerListIds == {ParseInt(p) : p \in ListIdParams}

ListRecord(lid) == [id |-> lid, title |-> IF lid = 1 THEN "Groceries" ELSE "Hardware"]

HasItem(lid, itemId) ==
  /\ lid \in srvLists
  /\ \E i \in 1..Len(srvItems[lid]) : srvItems[lid][i].id = itemId

\* POST /lists/{id}/items {name, quantity?, unit?, is_completed?}
CreatedItem(p) ==
  [id |-> srvNextItemId,
   name |-> p.name,
   quantity |-> IF "quantity" \in DOMAIN p THEN p.quantity ELSE 1,
   unit |-> IF "unit" \in DOMAIN p THEN p.unit ELSE Null,
   is_completed |-> IF "is_completed" \in DOMAIN p THEN p.is_completed ELSE FALSE]

\* PUT /lists/{id}/items/{itemId} {name?, quantity?, unit?, is_completed?}:
\* the fields present in the body replace the item's.
PatchedItem(it, p) ==
  [id |-> it.id,
   name |-> IF "name" \in DOMAIN p THEN p.name ELSE it.name,
   quantity |-> IF "quantity" \in DOMAIN p THEN p.quantity ELSE it.quantity,
   unit |-> IF "unit" \in DOMAIN p THEN p.unit ELSE it.unit,
   is_completed |-> IF "is_completed" \in DOMAIN p THEN p.is_completed ELSE it.is_completed]

PatchedItems(its, itemId, p) ==
  [i \in 1..Len(its) |-> IF its[i].id = itemId THEN PatchedItem(its[i], p) ELSE its[i]]

RemovedItem(its, itemId) == SelectSeq(its, LAMBDA it : it.id # itemId)

\* Whether the backend answers 2xx to r.
ServerAccepts(r) ==
  CASE r.kind \in {"getList", "getItems", "createItem", "deleteList"} -> r.lid \in srvLists
    [] r.kind \in {"updateItem", "deleteItem"} -> HasItem(r.lid, r.item)
    [] OTHER -> FALSE

\* The backend handles request r: it answers it from, or applies it to, its
\* state at this moment.
ServerProcess(r) ==
  /\ r \in pending
  /\ r.stage = "sent"
  /\ IF ~ServerAccepts(r)
     THEN /\ pending' = (pending \ {r}) \cup {[r EXCEPT !.stage = "rejected"]}
          /\ UNCHANGED srvVars
     ELSE /\ pending' = (pending \ {r}) \cup
               {[r EXCEPT !.stage = "done",
                          !.list = IF r.kind = "getList" THEN ListRecord(r.lid) ELSE NoList,
                          !.items = IF r.kind = "getItems" THEN srvItems[r.lid] ELSE <<>>]}
          /\ srvLists' = IF r.kind = "deleteList" THEN srvLists \ {r.lid} ELSE srvLists
          /\ srvItems' =
               CASE r.kind = "createItem" ->
                      [srvItems EXCEPT ![r.lid] = Append(@, CreatedItem(r.payload))]
                 [] r.kind = "updateItem" ->
                      [srvItems EXCEPT ![r.lid] = PatchedItems(@, r.item, r.payload)]
                 [] r.kind = "deleteItem" ->
                      [srvItems EXCEPT ![r.lid] = RemovedItem(@, r.item)]
                 [] r.kind = "deleteList" ->
                      [srvItems EXCEPT ![r.lid] = <<>>]
                 [] OTHER -> srvItems
          /\ srvNextItemId' = IF r.kind = "createItem" THEN srvNextItemId + 1 ELSE srvNextItemId
  /\ UNCHANGED <<listId, mounted, location, viewVars, nextId, itemsFetch, run, nTyped>>

(***************************************************************************)
(* ShoppingListDetail                                                      *)
(***************************************************************************)

\* The render guards: the list page with its forms and buttons is on screen.
ViewState ==
  IF isLoading THEN "Loading"
  ELSE IF list = NoList THEN "NotFound"
  ELSE "Loaded"

Rendered == mounted /\ location = "list" /\ ViewState = "Loaded"

\* The row of `it` shows the edit form (editingItem?.id === item.id).
RowEdits(it) == editingItem # NoItem /\ editingItem.id = it.id

ItemSet == {items[i] : i \in 1..Len(items)}

\* useEffect(() => { if (listId) { fetchList(); fetchItems(); } }, [listId])
ListEffect(param) ==
  IF param = <<>> THEN {}
  ELSE {GetListRequest(nextId, "load", ParseInt(param)),
        GetItemsRequest(nextId + 1, "load", ParseInt(param), <<>>)}

\* Mutant of SendMutation: the refetch goes out together with the mutation
\* instead of after its await.
SendMutation_Concurrent(req) ==
  IF req.kind = "deleteList" THEN {req}
  ELSE {req, Request(req.id + 1, "getItems", req.op, req.lid, 0, NoBody, <<req>>)}

\* The awaited request of a mutating handler goes out alone.
SendMutation(req) == {req}

\* Mutant of RefetchAfter: a successful mutation refetches nothing.
RefetchAfter_None(m) == {}

\* Mutant of RefetchAfter: the deletion of the list refetches items too.
RefetchAfter_Always(m) == {GetItemsRequest(m.id + 1, m.op, m.lid, <<m>>)}

\* fetchItems() after the awaited mutation m returned: its closure holds the
\* listId of the render the handler ran in.
RefetchAfter(m) ==
  IF m.kind = "deleteList" THEN {}
  ELSE {GetItemsRequest(m.id + 1, m.op, m.lid, <<m>>)}

\* Mutant of AddItemRejects: the name is tested without trim().
AddItemRejects_NoTrim(form) == form.name = <<>>

\* `if (!newItem.name.trim()) return;`
AddItemRejects(form) == Trim(form.name) = <<>>

\* The body of apiClient.createListItem; `unit: newItem.unit || undefined`
\* leaves an empty unit out of the JSON body.
CreateItemPayload(form) ==
  IF form.unit = ""
  THEN [name |-> form.name, quantity |-> form.quantity, is_completed |-> FALSE]
  ELSE [name |-> form.name, quantity |-> form.quantity, unit |-> form.unit,
        is_completed |-> FALSE]

\* Mutant of TogglePayload: the flag is sent as it is.
TogglePayload_NotNegated(item) == [is_completed |-> item.is_completed]

\* Mutant of TogglePayload: the flag the backend holds is negated instead of
\* the flag on screen.
TogglePayload_OfServer(item) ==
  LET held == {it \in {srvItems[ParseInt(listId)][i] :
                         i \in 1..Len(srvItems[ParseInt(listId)])} : it.id = item.id}
  IN IF held = {} THEN [is_completed |-> ~item.is_completed]
     ELSE [is_completed |-> ~(CHOOSE it \in held : TRUE).is_completed]

\* The body of the toggle's apiClient.updateListItem.
TogglePayload(item) == [is_completed |-> ~item.is_completed]

\* Mutant of SaveEditPayload: the completion flag is sent along.
SaveEditPayload_WithFlag(draft) ==
  [name |-> draft.name, quantity |-> draft.quantity, unit |-> draft.unit,
   is_completed |-> draft.is_completed]

\* The body of the save's apiClient.updateListItem.
SaveEditPayload(draft) ==
  [name |-> draft.name, quantity |-> draft.quantity, unit |-> draft.unit]

\* Mutant of CatchMessage: a failed refetch after a mutation is passed over
\* in silence.
CatchMessage_QuietRefetch(r) ==
  CASE r.kind = "getList" -> "Failed to load shopping list"
    [] r.kind = "getItems" -> IF r.op = "load" THEN "Failed to load list items" ELSE ""
    [] r.op = "addItem" -> "Failed to add item"
    [] r.op = "toggle" -> "Failed to update item"
    [] r.op = "saveEdit" -> "Failed to update item"
    [] r.op = "deleteItem" -> "Failed to delete item"
    [] OTHER -> "Failed to delete list"

\* Mutant of CatchMessage: an error already shown is kept.
CatchMessage_FirstWins(r) ==
  IF error # "" THEN error
  ELSE CASE r.kind = "getList" -> "Failed to load shopping list"
         [] r.kind = "getItems" -> "Failed to load list items"
         [] r.op = "addItem" -> "Failed to add item"
         [] r.op = "toggle" -> "Failed to update item"
         [] r.op = "saveEdit" -> "Failed to update item"
         [] r.op = "deleteItem" -> "Failed to delete item"
         [] OTHER -> "Failed to delete list"

\* The message each catch block sets.
CatchMessage(r) ==
  CASE r.kind = "getList" -> "Failed to load shopping list"
    [] r.kind = "getItems" -> "Failed to load list items"
    [] r.op = "addItem" -> "Failed to add item"
    [] r.op = "toggle" -> "Failed to update item"
    [] r.op = "saveEdit" -> "Failed to update item"
    [] r.op = "deleteItem" -> "Failed to delete item"
    [] OTHER -> "Failed to delete list"

\* `run` after a request failed or the listId changed.
Disturbed == "upset"

\* A handler sends the mutation `req` and awaits it.
Send(req) ==
  /\ nextId + 1 <= MaxRequests
  /\ pending' = pending \cup SendMutation(req)
  /\ nextId' = nextId + 2
  /\ run' = IF pending = {} THEN "single"
            ELSE IF run = "single" THEN "mixed"
            ELSE run

\* The mount effect.
Mount ==
  /\ ~mounted
  /\ mounted' = TRUE
  /\ pending' = pending \cup ListEffect(listId)
  /\ nextId' = nextId + 2
  /\ UNCHANGED <<listId, location, viewVars, srvVars, itemsFetch, run, nTyped>>

\* The router hands the mounted view another listId; the effect runs again.
ChangeListId(param) ==
  /\ mounted
  /\ location = "list"
  /\ param # listId
  /\ nextId + 1 <= MaxRequests
  /\ listId' = param
  /\ pending' = pending \cup ListEffect(param)
  /\ nextId' = nextId + 2
  /\ run' = Disturbed
  /\ UNCHANGED <<mounted, location, viewVars, srvVars, itemsFetch, nTyped>>

\* Mutant of FormAfterCreate: the form keeps what the user entered.
FormAfterCreate_Kept(form) == form

\* setNewItem({ name: '', quantity: 1, unit: '' }) after the create returned.
FormAfterCreate(form) == EmptyForm

\* The awaited request r returned 2xx: the rest of the try block runs (and
\* fetchItems' finally). State setters of an unmounted view do nothing.
\* Mutant of ItemsAfterFetch: a response is dropped while a fetch issued
\* after it is still in flight.
ItemsAfterFetch_UnlessSuperseded(r) ==
  IF \E q \in pending : q.kind = "getItems" /\ q.id > r.id THEN items
  ELSE r.items

\* setItems(response.data) of fetchItems.
ItemsAfterFetch(r) == r.items

\* Mutant of DraftAfterSave: only the draft of the saved item is closed.
DraftAfterSave_OnlyOwn(r) ==
  IF editingItem # NoItem /\ editingItem.id = r.item THEN NoItem
  ELSE editingItem

\* setEditingItem(null) after the save's await.
DraftAfterSave(r) == NoItem

ResolveOk(r) ==
  /\ r \in pending
  /\ r.stage = "done"
  /\ pending' = (pending \ {r}) \cup (IF IsMutation(r) THEN RefetchAfter(r) ELSE {})
  /\ location' = IF r.kind = "deleteList" THEN "dashboard" ELSE location
  /\ IF location = "list"
     THEN /\ list' = IF r.kind = "getList" THEN r.list ELSE list
          /\ items' = IF r.kind = "getItems" THEN ItemsAfterFetch(r) ELSE items
          /\ isLoading' = IF r.kind = "getItems" THEN FALSE ELSE isLoading
          /\ newItem' = IF r.kind = "createItem" THEN FormAfterCreate(newItem) ELSE newItem
          /\ editingItem' = IF r.op = "saveEdit" /\ r.kind = "updateItem"
                            THEN DraftAfterSave(r) ELSE editingItem
          /\ itemsFetch' = IF r.kind = "getItems"
                           THEN [lid |-> r.lid, data |-> r.items] ELSE itemsFetch
     ELSE UNCHANGED <<list, items, isLoading, newItem, editingItem, itemsFetch>>
  /\ UNCHANGED <<listId, mounted, error, nextId, srvVars, run, nTyped>>

\* The awaited request r failed (no answer, or a non-2xx answer): the catch
\* block runs (and fetchItems' finally).
ResolveErr(r) ==
  /\ r \in pending
  /\ pending' = pending \ {r}
  /\ IF location = "list"
     THEN /\ error' = CatchMessage(r)
          /\ isLoading' = IF r.kind = "getItems" THEN FALSE ELSE isLoading
     ELSE UNCHANGED <<error, isLoading>>
  /\ run' = Disturbed
  /\ UNCHANGED <<listId, mounted, location, list, items, newItem, editingItem,
                 nextId, srvVars, itemsFetch, nTyped>>

\* onChange of the add-item form's fields.
SetNewItemName(text) ==
  /\ Rendered
  /\ text # newItem.name
  /\ nTyped < MaxTyped
  /\ nTyped' = nTyped + 1
  /\ newItem' = [newItem EXCEPT !.name = text]
  /\ UNCHANGED <<listId, mounted, location, list, items, isLoading, error,
                 editingItem, pending, nextId, srvVars, itemsFetch, run>>

SetNewItemQuantity(raw) ==
  /\ Rendered
  /\ nTyped < MaxTyped
  /\ nTyped' = nTyped + 1
  /\ newItem' = [newItem EXCEPT !.quantity = QuantityOrOne(raw)]
  /\ UNCHANGED <<listId, mounted, location, list, items, isLoading, error,
                 editingItem, pending, nextId, srvVars, itemsFetch, run>>

SetNewItemUnit(text) ==
  /\ Rendered
  /\ text # newItem.unit
  /\ nTyped < MaxTyped
  /\ nTyped' = nTyped + 1
  /\ newItem' = [newItem EXCEPT !.unit = text]
  /\ UNCHANGED <<listId, mounted, location, list, items, isLoading, error,
                 editingItem, pending, nextId, srvVars, itemsFetch, run>>

\* onSubmit of the add-item form.
HandleAddItem ==
  /\ Rendered
  /\ IF AddItemRejects(newItem)
     THEN UNCHANGED <<pending, nextId, run>>
     ELSE Send(Request(nextId, "createItem", "addItem", ParseInt(listId), 0,
                       CreateItemPayload(newItem), <<>>))
  /\ UNCHANGED <<listId, mounted, location, viewVars, srvVars, itemsFetch, nTyped>>

\* onChange of the checkbox in the row of `item`.
HandleToggleComplete(item) ==
  /\ Rendered
  /\ item \in ItemSet
  /\ ~RowEdits(item)
  /\ Send(Request(nextId, "updateItem", "toggle", ParseInt(listId), item.id,
                  TogglePayload(item), <<>>))
  /\ UNCHANGED <<listId, mounted, location, viewVars, srvVars, itemsFetch, nTyped>>

\* onClick of Edit in the row of `item`.
HandleEditItem(item) ==
  /\ Rendered
  /\ item \in ItemSet
  /\ ~RowEdits(item)
  /\ editingItem' = item
  /\ UNCHANGED <<listId, mounted, location, list, items, isLoading, error,
                 newItem, pending, nextId, srvVars, itemsFetch, run, nTyped>>

\* The edit form is on screen: some row's item has the draft's id.
EditFormShown == Rendered /\ \E it \in ItemSet : RowEdits(it)

\* Mutant of EditDraft: the edit is written into the row of items as well.
EditDraft_InPlace(field, value) ==
  /\ EditFormShown
  /\ nTyped < MaxTyped
  /\ nTyped' = nTyped + 1
  /\ editingItem' = [editingItem EXCEPT ![field] = value]
  /\ items' = [i \in 1..Len(items) |->
                 IF items[i].id = editingItem.id
                 THEN [items[i] EXCEPT ![field] = value] ELSE items[i]]
  /\ UNCHANGED <<listId, mounted, location, list, isLoading, error,
                 newItem, pending, nextId, srvVars, itemsFetch, run>>

\* onChange of the edit form's fields.
EditDraft(field, value) ==
  /\ EditFormShown
  /\ nTyped < MaxTyped
  /\ nTyped' = nTyped + 1
  /\ editingItem' = [editingItem EXCEPT ![field] = value]
  /\ UNCHANGED <<listId, mounted, location, list, items, isLoading, error,
                 newItem, pending, nextId, srvVars, itemsFetch, run>>

\* onClick of Cancel in the edit form.
CancelEdit ==
  /\ EditFormShown
  /\ editingItem' = NoItem
  /\ UNCHANGED <<listId, mounted, location, list, items, isLoading, error,
                 newItem, pending, nextId, srvVars, itemsFetch, run, nTyped>>

\* onSubmit of the edit form.
HandleSaveEdit ==
  /\ EditFormShown
  /\ IF editingItem = NoItem
     THEN UNCHANGED <<pending, nextId, run>>
     ELSE Send(Request(nextId, "updateItem", "saveEdit", ParseInt(listId),
                       editingItem.id, SaveEditPayload(editingItem), <<>>))
  /\ UNCHANGED <<listId, mounted, location, viewVars, srvVars, itemsFetch, nTyped>>

\* Mutant of HandleDeleteItem: the DELETE goes out whatever confirm() says.
HandleDeleteItem_NoConfirm(item, confirmed) ==
  /\ Rendered
  /\ item \in ItemSet
  /\ ~RowEdits(item)
  /\ Send(Request(nextId, "deleteItem", "deleteItem", ParseInt(listId),
                  item.id, NoBody, <<>>))
  /\ UNCHANGED <<listId, mounted, location, viewVars, srvVars, itemsFetch, nTyped>>

\* onClick of Delete in the row of `item`; `confirmed` is confirm()'s answer.
HandleDeleteItem(item, confirmed) ==
  /\ Rendered
  /\ item \in ItemSet
  /\ ~RowEdits(item)
  /\ IF ~confirmed
     THEN UNCHANGED <<pending, nextId, run>>
     ELSE Send(Request(nextId, "deleteItem", "deleteItem", ParseInt(listId),
                       item.id, NoBody, <<>>))
  /\ UNCHANGED <<listId, mounted, location, viewVars, srvVars, itemsFetch, nTyped>>

\* onClick of Delete List; `confirmed` is confirm()'s answer.
HandleDeleteList(confirmed) ==
  /\ Rendered
  /\ IF ~confirmed
     THEN UNCHANGED <<pending, nextId, run>>
     ELSE Send(Request(nextId, "deleteList", "deleteList", ParseInt(listId), 0,
                       NoBody, <<>>))
  /\ UNCHANGED <<listId, mounted, location, viewVars, srvVars, itemsFetch, nTyped>>

\* onClick of "Back" on the list page and of "Back to Dashboard" on the
\* 'List not found' page: navigate('/dashboard').
HandleBack ==
  /\ mounted
  /\ location = "list"
  /\ ViewState \in {"Loaded", "NotFound"}
  /\ location' = "dashboard"
  /\ UNCHANGED <<listId, mounted, viewVars, pending, nextId, srvVars, itemsFetch,
                 run, nTyped>>

(***************************************************************************)
(* The list view and its backend                                           *)
(***************************************************************************)

\* The backend's items when the view is opened.
InitialItem(id) ==
  [id |-> id, name |-> <<"m">>, quantity |-> 1, unit |-> Null, is_completed |-> FALSE]

ListInit ==
  /\ listId = <<"1">>
  /\ mounted = FALSE
  /\ location = "list"
  /\ list = NoList
  /\ items = <<>>
  /\ isLoading = TRUE
  /\ error = ""
  /\ newItem = EmptyForm
  /\ editingItem = NoItem
  /\ pending = {}
  /\ nextId = 1
  /\ srvLists = ServerListIds
  /\ srvItems = [l \in ServerListIds |-> <<InitialItem(l)>>]
  /\ srvNextItemId = Cardinality(ServerListIds) + 1
  /\ nTyped = 0
  /\ itemsFetch = NoFetch
  /\ run = "idle"

DiscIdle ==
  /\ discounts = <<>>
  /\ filteredDiscounts = <<>>
  /\ dIsLoading = TRUE
  /\ dError = ""
  /\ searchTerm = <<>>
  /\ selectedStore = <<>>
  /\ sortBy = "newest"
  /\ dFetch = "idle"
  /\ dEffect = FALSE

Next ==
  \/ Mount /\ UNCHANGED <<discVars, apiVars, loginVars, notifVars>>
  \/ \E param \in ListIdParams : ChangeListId(param) /\ UNCHANGED <<discVars, apiVars, loginVars, notifVars>>
  \/ \E r \in pending : ServerProcess(r) /\ UNCHANGED <<discVars, apiVars, loginVars, notifVars>>
  \/ \E r \in pending : ResolveOk(r) /\ UNCHANGED <<discVars, apiVars, loginVars, notifVars>>
  \/ \E r \in pending : ResolveErr(r) /\ UNCHANGED <<discVars, apiVars, loginVars, notifVars>>
  \/ \E text \in NameInputs : SetNewItemName(text) /\ UNCHANGED <<discVars, apiVars, loginVars, notifVars>>
  \/ \E raw \in QuantityInputs : SetNewItemQuantity(raw) /\ UNCHANGED <<discVars, apiVars, loginVars, notifVars>>
  \/ \E text \in UnitInputs : SetNewItemUnit(text) /\ UNCHANGED <<discVars, apiVars, loginVars, notifVars>>
  \/ HandleAddItem /\ UNCHANGED <<discVars, apiVars, loginVars, notifVars>>
  \/ \E item \in ItemSet : HandleToggleComplete(item) /\ UNCHANGED <<discVars, apiVars, loginVars, notifVars>>
  \/ \E item \in ItemSet : HandleEditItem(item) /\ UNCHANGED <<discVars, apiVars, loginVars, notifVars>>
  \/ \E text \in NameInputs : EditDraft("name", text) /\ UNCHANGED <<discVars, apiVars, loginVars, notifVars>>
  \/ \E raw \in QuantityInputs :
       EditDraft("quantity", QuantityOrOne(raw)) /\ UNCHANGED <<discVars, apiVars, loginVars, notifVars>>
  \/ \E text \in UnitInputs : EditDraft("unit", text) /\ UNCHANGED <<discVars, apiVars, loginVars, notifVars>>
  \/ CancelEdit /\ UNCHANGED <<discVars, apiVars, loginVars, notifVars>>
  \/ HandleSaveEdit /\ UNCHANGED <<discVars, apiVars, loginVars, notifVars>>
  \/ \E item \in ItemSet, confirmed \in BOOLEAN :
       HandleDeleteItem(item, confirmed) /\ UNCHANGED <<discVars, apiVars, loginVars, notifVars>>
  \/ \E confirmed \in BOOLEAN : HandleDeleteList(confirmed) /\ UNCHANGED <<discVars, apiVars, loginVars, notifVars>>
  \/ HandleBack /\ UNCHANGED <<discVars, apiVars, loginVars, notifVars>>

\* No call has been made.
ApiIdle ==
  /\ apiWire = {}
  /\ apiSettled = {}
  /\ apiNextId = 1
  /\ consoleLog = <<>>
  /\ windowLocation = "/"

\* The login page as first rendered.
LoginIdle ==
  /\ lgRoute = "/login"
  /\ lgUsername = ""
  /\ lgPassword = ""
  /\ lgError = ""
  /\ lgLoading = FALSE
  /\ lgCall = <<>>
  /\ lgAttempts = 0

\* A notification the backend holds when the page is opened.
InitialNotification(id, read) == [id |-> id, is_read |-> read]

\* The notifications page before its first effect.
NotifIdle ==
  /\ nMounted = FALSE
  /\ nLocation = "notifications"
  /\ nNotifications = <<>>
  /\ nIsLoading = TRUE
  /\ nError = ""
  /\ nFilter = "all"
  /\ nPending = {}
  /\ nNextId = 1
  /\ nSrv = <<InitialNotification(1, FALSE), InitialNotification(2, FALSE),
              InitialNotification(3, TRUE)>>
  /\ nLastFetch = <<>>
  /\ nOk = [marked |-> {}, deleted |-> {}]

Init == ListInit /\ DiscIdle /\ ApiIdle /\ LoginIdle /\ NotifIdle

Spec == Init /\ [][Next]_vars

(***************************************************************************)
(* Properties of the list view                                             *)
(***************************************************************************)

CurrentListId == ParseInt(listId)

\* C1: in every state the items collection equals the response of the last
\* successful items fetch, and that fetch was issued for the list id the
\* view is showing.
C1_ItemsAreSnapshotOfCurrentList ==
  location = "list" =>
    /\ items = itemsFetch.data
    /\ itemsFetch # NoFetch => itemsFetch.lid = CurrentListId

\* C2 as claimed: after successful mutations, once every request and refetch
\* of the view has resolved (none failed since the last mutation was sent,
\* the listId did not change), items equals the backend's items of the list.
C2_SettledItemsEqualServer ==
  (location = "list" /\ pending = {} /\ run \in {"single", "mixed"}) =>
    items = srvItems[CurrentListId]

\* C2 as amended: after a successful mutation that was sent while no other
\* request of the view was in flight, once it and its refetch have resolved
\* successfully with no other request sent in between, items equals the
\* backend's items of the list.
C2_SettledItemsEqualServerWhenNotOverlapped ==
  (location = "list" /\ pending = {} /\ run = "single") =>
    items = srvItems[CurrentListId]

C2_Witness ==
  /\ location = "list"
  /\ pending = {}
  /\ run = "single"
  /\ items = srvItems[CurrentListId]
  /\ Len(items) = 2

\* The message of each mutating operation.
FixedMessage(op) ==
  CASE op = "addItem" -> "Failed to add item"
    [] op = "toggle" -> "Failed to update item"
    [] op = "saveEdit" -> "Failed to update item"
    [] op = "deleteItem" -> "Failed to delete item"
    [] op = "deleteList" -> "Failed to delete list"

\* C3: when the request of a mutating operation fails, list, items, the
\* form, the draft and the loading flag keep their values, no refetch and no
\* retry is sent, and error becomes that operation's fixed non-empty
\* message whatever it held before.
C3_FailedMutationOnlySetsError ==
  [][\A r \in pending :
       (IsMutation(r) /\ location = "list" /\ ResolveErr(r)) =>
         /\ list' = list
         /\ items' = items
         /\ newItem' = newItem
         /\ editingItem' = editingItem
         /\ isLoading' = isLoading
         /\ location' = location
         /\ pending' = pending \ {r}
         /\ nextId' = nextId
         /\ error' = FixedMessage(r.op)
         /\ error' # ""]_vars

\* An update (toggle or save) has failed and nothing else is in flight: the
\* items are still on screen, the message is shown.
C3_Witness ==
  /\ location = "list"
  /\ error = "Failed to update item"
  /\ items # <<>>
  /\ pending = {}

\* The requests a step puts in flight.
SentInStep == {f \in pending' : \A g \in pending : g.id # f.id}

\* C4: the items refetch of a mutating operation is sent only in the step in
\* which its mutation request returns successfully, so the backend has
\* applied the mutation before it serves the refetch; the two are never in
\* flight together.
C4_RefetchOnlyAfterMutationReturned ==
  [][\A f \in SentInStep :
       (f.kind = "getItems" /\ f.op \in MutationOps) =>
         /\ f.stage = "sent"
         /\ f.from # <<>>
         /\ f.from[1] \in pending
         /\ f.from[1] \notin pending'
         /\ IsMutation(f.from[1])
         /\ f.from[1].stage = "done"
         /\ f.lid = f.from[1].lid]_vars

\* The refetch of a successful mutation has been served.
C4_Witness ==
  \E f \in pending :
    /\ f.kind = "getItems"
    /\ f.from # <<>>
    /\ f.stage = "done"
    /\ f.items = srvItems[f.lid]
    /\ f.items # <<InitialItem(f.lid)>>

\* C5: per mount or listId change the view starts in Loading and moves once,
\* to Loaded or to NotFound; NotFound is never shown while the list fetch is
\* pending, NotFound never becomes Loaded, and Loading is never re-entered.
ListFetchPending ==
  \E r \in pending : r.kind = "getList" /\ r.lid = CurrentListId

C5_OneShotLoading ==
  [][/\ listId' # listId => ViewState' = "Loading"
     /\ listId' = listId =>
          /\ ViewState = "NotFound" => ViewState' = "NotFound"
          /\ ViewState = "Loaded" => ViewState' = "Loaded"
          /\ ViewState' = "NotFound" => ~ListFetchPending']_vars

\* What C9 says of the two steps both readings share: the toggle of `item`
\* sends one update for that item whose body is exactly is_completed, negated,
\* and flips nothing locally; its success sends one items refetch and leaves
\* items alone.
ToggleSendsNegation ==
  \A item \in ItemSet :
    HandleToggleComplete(item) =>
      /\ Cardinality(SentInStep) = 1
      /\ \A r \in SentInStep :
           /\ r.kind = "updateItem"
           /\ r.item = item.id
           /\ DOMAIN r.payload = {"is_completed"}
           /\ r.payload.is_completed = ~item.is_completed
      /\ items' = items

ToggleSuccessRefetchesOnce ==
  \A m \in pending :
    (m.op = "toggle" /\ m.kind = "updateItem" /\ ResolveOk(m)) =>
      /\ Cardinality(SentInStep) = 1
      /\ \A f \in SentInStep : f.kind = "getItems" /\ f.lid = m.lid
      /\ items' = items

\* The refetch f of a toggle is applied and the toggled item is on screen
\* with the flag the toggle sent.
ToggleRefetchShowsSentFlag(f) ==
  \E i \in 1..Len(items') :
    /\ items'[i].id = f.from[1].item
    /\ items'[i].is_completed = f.from[1].payload.is_completed

\* C9 as claimed: the toggle sends one update carrying only the negated
\* flag and flips nothing locally; on success it sends one items refetch,
\* after which the rendered item shows the negated flag.
C9_ToggleThenRefetchShowsNegation ==
  [][/\ ToggleSendsNegation
     /\ ToggleSuccessRefetchesOnce
     /\ \A f \in pending :
          (f.kind = "getItems" /\ f.op = "toggle" /\ location = "list" /\ ResolveOk(f))
            => ToggleRefetchShowsSentFlag(f)]_vars

\* C9 as amended: the same, and the rendered item shows the negated flag
\* after the refetch when no other request of the view was in flight when
\* the toggle was sent and none was sent before the refetch resolved.
C9_ToggleThenRefetchShowsNegationWhenNotOverlapped ==
  [][/\ ToggleSendsNegation
     /\ ToggleSuccessRefetchesOnce
     /\ \A f \in pending :
          (/\ f.kind = "getItems" /\ f.op = "toggle" /\ location = "list"
           /\ run = "single" /\ ResolveOk(f))
            => ToggleRefetchShowsSentFlag(f)]_vars

\* A toggle ran alone and its refetch has been applied: the item it
\* completed is on screen as completed.
C9_Witness ==
  /\ location = "list"
  /\ run = "single"
  /\ pending = {}
  /\ itemsFetch.lid = CurrentListId
  /\ \E it \in ItemSet : it.is_completed

\* C10: submitting the add-item form with an empty or whitespace-only name
\* sends no request and leaves items, error and the form unchanged.
C10_BlankAddItemIsNoOp ==
  [][(HandleAddItem /\ Trim(newItem.name) = <<>>) =>
       /\ SentInStep = {}
       /\ pending' = pending
       /\ items' = items
       /\ error' = error
       /\ newItem' = newItem]_vars

\* The add-item form is on screen holding a whitespace-only name with
\* nothing in flight: the state a blank submit starts from and, sending
\* nothing, ends in.
C10_Witness ==
  /\ Rendered
  /\ newItem.name # <<>>
  /\ Trim(newItem.name) = <<>>
  /\ pending = {}
  /\ ENABLED HandleAddItem

(***************************************************************************)
(* DiscountsPage                                                           *)
(*                                                                         *)
(* An optional field (description?, discount_price?, discount_percentage?) *)
(* is the empty sequence when missing and a one-element sequence when      *)
(* present.                                                                *)
(***************************************************************************)

\* Length of the longest getDiscounts response.
MaxDiscounts == 3

\* The characters of the texts below, in UTF-16 code unit order.
Alphabet == <<"A", "B", "K", "L", "a", "b", "c", "k", "l", "x", "z">>

CharCode(c) == CHOOSE i \in 1..Len(Alphabet) : Alphabet[i] = c

\* String.prototype.toLowerCase
ToLowerChar(c) ==
  CASE c = "A" -> "a"
    [] c = "B" -> "b"
    [] c = "K" -> "k"
    [] c = "L" -> "l"
    [] OTHER -> c

ToLowerCase(s) == [i \in 1..Len(s) |-> ToLowerChar(s[i])]

StartsWith(s, p) == Len(p) <= Len(s) /\ SubSeq(s, 1, Len(p)) = p

\* String.prototype.includes: the first position at which p starts, if any.
RECURSIVE Includes(_, _)
Includes(s, p) ==
  IF StartsWith(s, p) THEN TRUE
  ELSE IF s = <<>> THEN FALSE
  ELSE Includes(Tail(s), p)

\* new Date(created_at).getTime() of the timestamps below, in seconds.
GetTime(createdAt) ==
  CASE createdAt = "2024-01-01T00:00:00Z" -> 1704067200
    [] createdAt = "2024-01-02T00:00:00Z" -> 1704153600
    [] createdAt = "2024-01-03T00:00:00Z" -> 1704240000

\* Discounts the backend may return.
DiscountPool ==
  { [id |-> 1, title |-> <<"A", "b">>, description |-> << <<"x">> >>,
     store |-> <<"K">>, discount_price |-> <<5>>, discount_percentage |-> <<10>>,
     created_at |-> "2024-01-01T00:00:00Z"],
    [id |-> 2, title |-> <<"b">>, description |-> <<>>,
     store |-> <<"k">>, discount_price |-> <<>>, discount_percentage |-> <<>>,
     created_at |-> "2024-01-02T00:00:00Z"],
    [id |-> 3, title |-> <<"c">>, description |-> << <<"a", "B">> >>,
     store |-> <<"K">>, discount_price |-> <<0>>, discount_percentage |-> <<0>>,
     created_at |-> "2024-01-02T00:00:00Z"],
    [id |-> 4, title |-> <<"L">>, description |-> << <<>> >>,
     store |-> <<"L", "a">>, discount_price |-> <<5>>, discount_percentage |-> <<50>>,
     created_at |-> "2024-01-03T00:00:00Z"],
    [id |-> 5, title |-> <<"z">>, description |-> <<>>,
     store |-> <<"k">>, discount_price |-> <<>>, discount_percentage |-> <<>>,
     created_at |-> "2024-01-01T00:00:00Z"] }

\* The responses of getDiscounts: discounts of the pool, each at most once.
DiscountResponses ==
  UNION { {r \in [1..n -> DiscountPool] : \A i, j \in 1..n : i # j => r[i] # r[j]}
          : n \in 0..MaxDiscounts }

\* Texts typed into the search box.
SearchInputs == {<<>>, <<"a">>, <<"A", "B">>, <<"k">>, <<"z">>}

SortKeys == {"newest", "oldest", "price-low", "price-high", "discount"}

\* Mutant of MatchesSearch: the texts are compared as typed.
MatchesSearch_CaseSensitive(discount, term) ==
  \/ Includes(discount.title, term)
  \/ discount.description # <<>> /\ Includes(discount.description[1], term)
  \/ Includes(discount.store, term)

\* matchesSearch: `description?.toLowerCase()...` is undefined, falsy, for a
\* discount without description.
MatchesSearch(discount, term) ==
  \/ Includes(ToLowerCase(discount.title), ToLowerCase(term))
  \/ /\ discount.description # <<>>
     /\ Includes(ToLowerCase(discount.description[1]), ToLowerCase(term))
  \/ Includes(ToLowerCase(discount.store), ToLowerCase(term))

\* matchesStore
MatchesStore(discount, store) == store = <<>> \/ discount.store = store

\* `x || 0` of an optional number.
OrZero(opt) == IF opt = <<>> \/ opt[1] = 0 THEN 0 ELSE opt[1]

\* Mutant of Compare: a discount without a price sorts as the dearest.
Compare_MissingPriceLast(a, b, key) ==
  LET price(d) == IF d.discount_price = <<>> THEN 1000 ELSE d.discount_price[1]
  IN CASE key = "newest" -> GetTime(b.created_at) - GetTime(a.created_at)
       [] key = "oldest" -> GetTime(a.created_at) - GetTime(b.created_at)
       [] key = "price-low" -> price(a) - price(b)
       [] key = "price-high" -> price(b) - price(a)
       [] key = "discount" -> OrZero(b.discount_percentage) - OrZero(a.discount_percentage)
       [] OTHER -> 0

\* The comparator handed to sort.
Compare(a, b, key) ==
  CASE key = "newest" -> GetTime(b.created_at) - GetTime(a.created_at)
    [] key = "oldest" -> GetTime(a.created_at) - GetTime(b.created_at)
    [] key = "price-low" -> OrZero(a.discount_price) - OrZero(b.discount_price)
    [] key = "price-high" -> OrZero(b.discount_price) - OrZero(a.discount_price)
    [] key = "discount" -> OrZero(b.discount_percentage) - OrZero(a.discount_percentage)
    [] OTHER -> 0

\* Mutant of InsertSorted: x goes before the elements it compares equal to.
RECURSIVE InsertSorted_BeforeEqual(_, _, _)
InsertSorted_BeforeEqual(sorted, x, key) ==
  IF sorted = <<>> THEN <<x>>
  ELSE IF Compare(sorted[Len(sorted)], x, key) < 0
       THEN Append(sorted, x)
       ELSE Append(InsertSorted_BeforeEqual(SubSeq(sorted, 1, Len(sorted) - 1), x, key),
                   sorted[Len(sorted)])

\* Array.prototype.sort is stable: x goes after every element that does not
\* compare greater than it.
RECURSIVE InsertSorted(_, _, _)
InsertSorted(sorted, x, key) ==
  IF sorted = <<>> THEN <<x>>
  ELSE IF Compare(sorted[Len(sorted)], x, key) <= 0
       THEN Append(sorted, x)
       ELSE Append(InsertSorted(SubSeq(sorted, 1, Len(sorted) - 1), x, key),
                   sorted[Len(sorted)])

\* Mutant of Sort: the elements are inserted from the last to the first, so
\* elements that compare equal come out in reverse.
RECURSIVE Sort_LastFirst(_, _)
Sort_LastFirst(s, key) ==
  IF s = <<>> THEN <<>>
  ELSE InsertSorted(Sort_LastFirst(Tail(s), key), Head(s), key)

RECURSIVE Sort(_, _)
Sort(s, key) ==
  IF s = <<>> THEN <<>>
  ELSE InsertSorted(Sort(SubSeq(s, 1, Len(s) - 1), key), s[Len(s)], key)

\* filterAndSortDiscounts: the value it hands to setFilteredDiscounts.
FilterAndSortDiscounts(source, term, store, key) ==
  Sort(SelectSeq(source, LAMBDA d : MatchesSearch(d, term) /\ MatchesStore(d, store)), key)

\* Lexicographic order of two texts by code unit (the default sort order).
RECURSIVE TextLess(_, _)
TextLess(s, t) ==
  IF t = <<>> THEN FALSE
  ELSE IF s = <<>> THEN TRUE
  ELSE IF CharCode(Head(s)) # CharCode(Head(t)) THEN CharCode(Head(s)) < CharCode(Head(t))
  ELSE TextLess(Tail(s), Tail(t))

RECURSIVE SortTexts(_)
SortTexts(texts) ==
  IF texts = {} THEN <<>>
  ELSE LET least == CHOOSE t \in texts : \A u \in texts \ {t} : TextLess(t, u)
       IN <<least>> \o SortTexts(texts \ {least})

\* Mutant of GetUniqueStores: the stores are taken from the filtered view.
GetUniqueStores_OfView(source) ==
  SortTexts({filteredDiscounts[i].store : i \in 1..Len(filteredDiscounts)})

\* getUniqueStores
GetUniqueStores(source) == SortTexts({source[i].store : i \in 1..Len(source)})

\* The options of the store select.
StoreOptions ==
  {<<>>} \cup {GetUniqueStores(discounts)[i] : i \in 1..Len(GetUniqueStores(discounts))}

\* useEffect(() => { fetchDiscounts(); }, [])
DiscountsMount ==
  /\ dFetch = "idle"
  /\ dFetch' = "sent"
  /\ UNCHANGED <<discounts, filteredDiscounts, dIsLoading, dError, searchTerm,
                 selectedStore, sortBy, dEffect>>

\* getDiscounts returned `data`: setDiscounts(response.data) and, in finally,
\* setIsLoading(false). The view is recomputed by the effect, after this
\* render was committed.
FetchDiscountsOk(data) ==
  /\ dFetch = "sent"
  /\ dFetch' = "settled"
  /\ discounts' = data
  /\ dIsLoading' = FALSE
  /\ dEffect' = TRUE
  /\ UNCHANGED <<filteredDiscounts, dError, searchTerm, selectedStore, sortBy>>

\* useEffect(() => { filterAndSortDiscounts(); }, [discounts, searchTerm,
\* selectedStore, sortBy]) after a render that changed one of the four was
\* committed.
DiscountsEffect ==
  /\ dEffect
  /\ dEffect' = FALSE
  /\ filteredDiscounts' =
       FilterAndSortDiscounts(discounts, searchTerm, selectedStore, sortBy)
  /\ UNCHANGED <<discounts, dIsLoading, dError, searchTerm, selectedStore, sortBy, dFetch>>

\* getDiscounts failed.
FetchDiscountsErr ==
  /\ dFetch = "sent"
  /\ dFetch' = "settled"
  /\ dError' = "Failed to load discounts"
  /\ dIsLoading' = FALSE
  /\ UNCHANGED <<discounts, filteredDiscounts, searchTerm, selectedStore, sortBy, dEffect>>

\* onChange of the search box, the store select and the sort select: the
\* handler sets its own state only, and the render with the new value is
\* committed with the view of the render before; the effect recomputes the
\* view afterwards. React runs an effect that is still pending before it
\* renders the next update, so no handler's render comes between a render
\* and its effect. Setting the value the state already has renders nothing.
SetSearchTerm(term) ==
  /\ ~dIsLoading
  /\ ~dEffect
  /\ searchTerm' = term
  /\ dEffect' = (term # searchTerm)
  /\ UNCHANGED <<discounts, filteredDiscounts, dIsLoading, dError, selectedStore, sortBy, dFetch>>

SetSelectedStore(store) ==
  /\ ~dIsLoading
  /\ ~dEffect
  /\ store \in StoreOptions
  /\ selectedStore' = store
  /\ dEffect' = (store # selectedStore)
  /\ UNCHANGED <<discounts, filteredDiscounts, dIsLoading, dError, searchTerm, sortBy, dFetch>>

\* Mutant of SetSortBy: the source collection itself is sorted.
SetSortBy_InPlace(key) ==
  /\ ~dIsLoading
  /\ ~dEffect
  /\ sortBy' = key
  /\ discounts' = Sort(discounts, key)
  /\ dEffect' = TRUE
  /\ UNCHANGED <<filteredDiscounts, dIsLoading, dError, searchTerm, selectedStore, dFetch>>

SetSortBy(key) ==
  /\ ~dIsLoading
  /\ ~dEffect
  /\ sortBy' = key
  /\ dEffect' = (key # sortBy)
  /\ UNCHANGED <<discounts, filteredDiscounts, dIsLoading, dError, searchTerm, selectedStore, dFetch>>

DiscNext ==
  \/ DiscountsMount /\ UNCHANGED <<listVars, apiVars, loginVars, notifVars>>
  \/ \E data \in DiscountResponses : FetchDiscountsOk(data) /\ UNCHANGED <<listVars, apiVars, loginVars, notifVars>>
  \/ FetchDiscountsErr /\ UNCHANGED <<listVars, apiVars, loginVars, notifVars>>
  \/ DiscountsEffect /\ UNCHANGED <<listVars, apiVars, loginVars, notifVars>>
  \/ \E term \in SearchInputs : SetSearchTerm(term) /\ UNCHANGED <<listVars, apiVars, loginVars, notifVars>>
  \/ \E store \in StoreOptions : SetSelectedStore(store) /\ UNCHANGED <<listVars, apiVars, loginVars, notifVars>>
  \/ \E key \in SortKeys : SetSortBy(key) /\ UNCHANGED <<listVars, apiVars, loginVars, notifVars>>

SpecDiscounts == Init /\ [][DiscNext]_vars

(***************************************************************************)
(* Properties of the discounts page                                        *)
(***************************************************************************)

\* `term` occurs in `text` when letter case is ignored.
ContainsIgnoringCase(text, term) ==
  \E i \in 1..(Len(text) + 1) :
    /\ i + Len(term) - 1 <= Len(text)
    /\ \A j \in 1..Len(term) : ToLowerChar(text[i + j - 1]) = ToLowerChar(term[j])

\* The retention rule for the current search term and store filter.
ShouldRetain(d) ==
  /\ \/ searchTerm = <<>>
     \/ ContainsIgnoringCase(d.title, searchTerm)
     \/ d.description # <<>> /\ ContainsIgnoringCase(d.description[1], searchTerm)
     \/ ContainsIgnoringCase(d.store, searchTerm)
  /\ \/ selectedStore = <<>>
     \/ d.store = selectedStore

SourceSet == {discounts[i] : i \in 1..Len(discounts)}

ShownSet == {filteredDiscounts[i] : i \in 1..Len(filteredDiscounts)}

\* C6: once filterAndSortDiscounts has run on the current collection, search
\* term and store filter, the
\* view holds, once each, exactly the discounts of the source that the
\* search term matches (ignoring case, in title, description when present,
\* or store) and whose store is the selected one when a store is selected;
\* a discount without description is decided by title and store.
C6_RetainedIffMatches ==
  ~dEffect =>
    /\ ShownSet = {d \in SourceSet : ShouldRetain(d)}
    /\ Len(filteredDiscounts) = Cardinality(ShownSet)

\* A search term and a store filter are both set, a discount without
\* description is dropped and another discount is kept.
C6_Witness ==
  /\ ~dEffect
  /\ searchTerm = <<"k">>
  /\ selectedStore = <<"K">>
  /\ \E d \in SourceSet \ ShownSet : d.description = <<>>
  /\ filteredDiscounts # <<>>

\* The number a discount is ranked by, smallest first, under the sort key.
ValueOrZero(opt) == IF opt = <<>> THEN 0 ELSE opt[1]

Rank(d) ==
  CASE sortBy = "newest" -> 0 - GetTime(d.created_at)
    [] sortBy = "oldest" -> GetTime(d.created_at)
    [] sortBy = "price-low" -> ValueOrZero(d.discount_price)
    [] sortBy = "price-high" -> 0 - ValueOrZero(d.discount_price)
    [] sortBy = "discount" -> 0 - ValueOrZero(d.discount_percentage)

\* C7: once filterAndSortDiscounts has run on the current collection and
\* sort key, the view is ordered by the selected key, a missing price or
\* percentage counting as 0.
C7_OrderedBySortKey ==
  ~dEffect =>
    \A i, j \in 1..Len(filteredDiscounts) :
      i < j => Rank(filteredDiscounts[i]) <= Rank(filteredDiscounts[j])

\* Under price-low a discount without price, received after one priced 5,
\* is shown before it.
C7_Witness ==
  /\ ~dEffect
  /\ sortBy = "price-low"
  /\ Len(filteredDiscounts) >= 2
  /\ discounts[1].discount_price = <<5>>
  /\ filteredDiscounts[1].discount_price = <<>>
  /\ filteredDiscounts[Len(filteredDiscounts)].discount_price = <<5>>

PositionInSource(d) == CHOOSE k \in 1..Len(discounts) : discounts[k] = d

\* C8: once filterAndSortDiscounts has run on the current collection and
\* sort key, discounts that rank equal under the sort key are shown in the
\* order in which the fetch delivered them.
C8_TiesKeepSourceOrder ==
  ~dEffect =>
    \A i, j \in 1..Len(filteredDiscounts) :
      i < j /\ Rank(filteredDiscounts[i]) = Rank(filteredDiscounts[j])
        => PositionInSource(filteredDiscounts[i]) < PositionInSource(filteredDiscounts[j])

\* Three discounts tie under price-low: no price, price 0, no price, in
\* descending order of id, and are shown as received.
C8_Witness ==
  /\ ~dEffect
  /\ sortBy = "price-low"
  /\ Len(filteredDiscounts) = 3
  /\ filteredDiscounts = discounts
  /\ filteredDiscounts[1].discount_price = <<>> /\ filteredDiscounts[1].id = 5
  /\ filteredDiscounts[2].discount_price = <<0>>
  /\ filteredDiscounts[3].discount_price = <<>> /\ filteredDiscounts[3].id = 2

(***************************************************************************)
(* Properties of the add-item form, the draft and the delete handlers      *)
(***************************************************************************)

\* The texts of QuantityInputs that denote a positive number.
ValidPositiveInputs == {"2"}

\* C11: typing a text that is not a valid positive number into the quantity
\* field leaves 1 in the form, the form never holds a quantity that is not
\* positive, and every create-item request carries the form's quantity, a
\* positive number.
C11_InvalidQuantityBecomesOne ==
  [][/\ \A raw \in QuantityInputs \ ValidPositiveInputs :
          SetNewItemQuantity(raw) => newItem'.quantity = 1
     /\ newItem'.quantity > 0
     /\ \A f \in SentInStep :
          f.kind = "createItem" =>
            f.payload.quantity = newItem.quantity /\ f.payload.quantity > 0]_vars

\* C12: submitting the form with a non-blank name sends one create request
\* carrying the form's name. When that request succeeds while the view is
\* mounted, the form is reset to name '', quantity 1, unit '' and one items
\* refetch is sent; when it fails, the form keeps its values, error becomes
\* the add-item message and nothing is sent.
C12_AddItemResetsFormOnSuccessOnly ==
  [][/\ (HandleAddItem /\ Trim(newItem.name) # <<>>) =>
          /\ Cardinality(SentInStep) = 1
          /\ \A f \in SentInStep :
               f.kind = "createItem" /\ f.payload.name = newItem.name
          /\ newItem' = newItem
     /\ \A r \in pending :
          (r.kind = "createItem" /\ location = "list") =>
            /\ ResolveOk(r) =>
                 /\ newItem' = [name |-> <<>>, quantity |-> 1, unit |-> ""]
                 /\ Cardinality(SentInStep) = 1
                 /\ \A f \in SentInStep : f.kind = "getItems" /\ f.lid = r.lid
                 /\ error' = error
            /\ ResolveErr(r) =>
                 /\ newItem' = newItem
                 /\ error' = "Failed to add item"
                 /\ SentInStep = {}]_vars

\* A first add failed and left the typed name in the form; the second add
\* of the same name succeeded: the form is back to its initial values while
\* the refetch of the add is in flight.
C12_Witness ==
  /\ location = "list"
  /\ nTyped = 1
  /\ newItem = [name |-> <<>>, quantity |-> 1, unit |-> ""]
  /\ error = "Failed to add item"
  /\ \E f \in pending : f.kind = "getItems" /\ f.op = "addItem"

\* A step of the draft: Edit on a row, a change of a field of the edit form,
\* or Cancel.
DraftStep ==
  \/ \E item \in ItemSet : HandleEditItem(item)
  \/ \E text \in NameInputs : EditDraft("name", text)
  \/ \E raw \in QuantityInputs : EditDraft("quantity", QuantityOrOne(raw))
  \/ \E text \in UnitInputs : EditDraft("unit", text)
  \/ CancelEdit

\* C13: beginning an edit, editing the draft's name, quantity or unit, and
\* cancelling leave items and every record in it as they were; items
\* changes only in a step that applies the response of an items fetch.
C13_EditingIsStagedInDraft ==
  [][/\ DraftStep => items' = items
     /\ items' # items =>
          \E r \in pending :
            r.kind = "getItems" /\ ResolveOk(r) /\ items' = r.items]_vars

\* A draft is open whose name differs from the name of its item in items:
\* the edit is in the draft only.
C13_Witness ==
  /\ EditFormShown
  /\ nTyped = 1
  /\ \E it \in ItemSet :
       it.id = editingItem.id /\ it.name # editingItem.name /\ it.name = <<"m">>

\* C14: submitting the edit form sends one update for the draft's item id
\* whose body is the draft's name, quantity and unit and nothing else, and
\* leaves the draft open; without a draft it sends nothing. When the update
\* succeeds while the view is mounted the draft slot is cleared and one items
\* refetch is sent; when it fails the draft stays as the user left it, error
\* becomes the update message and nothing is sent.
C14_SaveEditSendsDraftFields ==
  [][/\ (HandleSaveEdit /\ editingItem # NoItem) =>
          /\ Cardinality(SentInStep) = 1
          /\ \A f \in SentInStep :
               /\ f.kind = "updateItem"
               /\ f.item = editingItem.id
               /\ DOMAIN f.payload = {"name", "quantity", "unit"}
               /\ f.payload.name = editingItem.name
               /\ f.payload.quantity = editingItem.quantity
               /\ f.payload.unit = editingItem.unit
          /\ editingItem' = editingItem
          /\ items' = items
     /\ (HandleSaveEdit /\ editingItem = NoItem) => SentInStep = {}
     /\ \A r \in pending :
          (r.kind = "updateItem" /\ r.op = "saveEdit" /\ location = "list") =>
            /\ ResolveOk(r) =>
                 /\ editingItem' = NoItem
                 /\ Cardinality(SentInStep) = 1
                 /\ \A f \in SentInStep : f.kind = "getItems" /\ f.lid = r.lid
                 /\ error' = error
            /\ ResolveErr(r) =>
                 /\ editingItem' = editingItem
                 /\ error' = "Failed to update item"
                 /\ SentInStep = {}]_vars

\* A save failed and left the draft open, the next save of the edited draft
\* succeeded: the slot is empty while the refetch of the save is in flight.
C14_Witness ==
  /\ location = "list"
  /\ editingItem = NoItem
  /\ error = "Failed to update item"
  /\ \E f \in pending :
       /\ f.kind = "getItems"
       /\ f.op = "saveEdit"
       /\ f.from[1].payload.name # <<"m">>
       /\ f.from[1].item = 1

\* C15: Delete on a row sends nothing and changes nothing when the
\* confirmation is declined; when it is confirmed it sends exactly one DELETE
\* for that item of the shown list, and the success of that DELETE sends
\* exactly one items refetch.
C15_DeleteItemAsksFirst ==
  [][/\ \A item \in ItemSet :
          /\ HandleDeleteItem(item, FALSE) =>
               /\ SentInStep = {}
               /\ pending' = pending
               /\ viewVars' = viewVars
               /\ location' = location
          /\ HandleDeleteItem(item, TRUE) =>
               /\ Cardinality(SentInStep) = 1
               /\ \A f \in SentInStep :
                    /\ f.kind = "deleteItem"
                    /\ f.item = item.id
                    /\ f.lid = CurrentListId
               /\ viewVars' = viewVars
     /\ \A r \in pending :
          (r.kind = "deleteItem" /\ ResolveOk(r)) =>
            /\ Cardinality(SentInStep) = 1
            /\ \A f \in SentInStep : f.kind = "getItems" /\ f.lid = r.lid
            /\ items' = items]_vars

\* A confirmed delete has succeeded and its refetch has been served without
\* the item, which is still on screen until the refetch is applied.
C15_Witness ==
  /\ location = "list"
  /\ items # <<>>
  /\ \E f \in pending :
       /\ f.kind = "getItems"
       /\ f.op = "deleteItem"
       /\ f.stage = "done"
       /\ f.items = <<>>

\* C16: Delete List sends nothing when the confirmation is declined and one
\* DELETE of the shown list when it is confirmed. When that DELETE succeeds
\* the view navigates to the dashboard and sends no request; when it fails
\* the view stays on the list, list and items keep their values and error
\* becomes the delete-list message.
C16_DeleteListNavigatesOnSuccess ==
  [][/\ HandleDeleteList(FALSE) =>
          SentInStep = {} /\ pending' = pending /\ location' = location
     /\ HandleDeleteList(TRUE) =>
          /\ Cardinality(SentInStep) = 1
          /\ \A f \in SentInStep : f.kind = "deleteList" /\ f.lid = CurrentListId
          /\ location' = location
     /\ \A r \in pending :
          (r.kind = "deleteList" /\ location = "list") =>
            /\ ResolveOk(r) =>
                 /\ location' = "dashboard"
                 /\ SentInStep = {}
            /\ ResolveErr(r) =>
                 /\ location' = "list"
                 /\ list' = list
                 /\ items' = items
                 /\ error' = "Failed to delete list"
                 /\ SentInStep = {}]_vars

\* A first deletion of the list failed and left the view on the list with
\* the message; the second succeeded: the backend has no list 1, the user is
\* on the dashboard and nothing is in flight.
C16_Witness ==
  /\ location = "dashboard"
  /\ error = "Failed to delete list"
  /\ 1 \notin srvLists
  /\ list # NoList
  /\ pending = {}

(***************************************************************************)
(* Properties of the discounts page, continued                             *)
(***************************************************************************)

\* C17: once filterAndSortDiscounts has produced the view, filtering and
\* sorting the view again with the same search term, store filter and sort
\* key gives the view back, element for element.
C17_FilterAndSortIsIdempotent ==
  ~dEffect =>
    FilterAndSortDiscounts(filteredDiscounts, searchTerm, selectedStore, sortBy)
      = filteredDiscounts

\* Search term "k" drops the discount of store "La" and keeps, under
\* price-high, a discount without price ahead of one priced 0.
C17_Witness ==
  /\ ~dEffect
  /\ sortBy = "price-high"
  /\ searchTerm = <<"k">>
  /\ Len(discounts) = 3
  /\ discounts[1].id = 2 /\ discounts[2].id = 4 /\ discounts[3].id = 3
  /\ Len(filteredDiscounts) = 2
  /\ filteredDiscounts[1].id = 2 /\ filteredDiscounts[2].id = 3

\* s comes before t in lexicographic order: at the first position where
\* they differ s has ended or has the smaller character.
LexBefore(s, t) ==
  \E k \in 1..Len(t) :
    /\ \A m \in 1..(k - 1) : m <= Len(s) /\ s[m] = t[m]
    /\ \/ k = Len(s) + 1
       \/ k <= Len(s) /\ CharCode(s[k]) < CharCode(t[k])

\* C18: the store names offered are exactly the stores that occur in the
\* fetched collection, each once, in ascending lexicographic order, whatever
\* the search term, the store filter and the sort key are; the store select
\* offers them and the empty choice.
C18_UniqueStoresOfSource ==
  LET stores == GetUniqueStores(discounts)
  IN /\ {stores[i] : i \in 1..Len(stores)} = {d.store : d \in SourceSet}
     /\ \A i, j \in 1..Len(stores) : i < j => LexBefore(stores[i], stores[j])
     /\ StoreOptions = {<<>>} \cup {d.store : d \in SourceSet}

\* The fetch delivered stores "k", "K", "K" in this order and the search
\* term leaves the view empty: the stores offered are "K", "k".
C18_Witness ==
  /\ searchTerm = <<"z">>
  /\ filteredDiscounts = <<>>
  /\ Len(discounts) = 3
  /\ discounts[1].id = 2 /\ discounts[2].id = 1 /\ discounts[3].id = 3
  /\ GetUniqueStores(discounts) = << <<"K">>, <<"k">> >>

\* A change of the search term, the store filter or the sort key.
QueryStep ==
  \/ \E term \in SearchInputs : SetSearchTerm(term)
  \/ \E store \in StoreOptions : SetSelectedStore(store)
  \/ \E key \in SortKeys : SetSortBy(key)

\* C19: a change of search term, store filter or sort key leaves the source
\* collection as it is, element for element, and sends no request; the source
\* collection changes only in the step that applies a successful fetch, to
\* the response of that fetch.
C19_QueryLeavesSourceAlone ==
  [][/\ QueryStep => discounts' = discounts /\ dFetch' = dFetch
     /\ discounts' # discounts =>
          \E data \in DiscountResponses : FetchDiscountsOk(data) /\ discounts' = data]_vars

\* The view is sorted oldest first and shows the source's first discount
\* last: the source still has the order of the response.
C19_Witness ==
  /\ sortBy = "oldest"
  /\ Len(discounts) = 3
  /\ Len(filteredDiscounts) = 3
  /\ discounts[1].id = 4 /\ discounts[2].id = 2 /\ discounts[3].id = 1
  /\ filteredDiscounts[1].id = 1 /\ filteredDiscounts[3].id = 4

(***************************************************************************)
(* ApiClient                                                               *)
(*                                                                         *)
(* What the transport hands to the response interceptors: a record whose   *)
(* status is a one-element sequence, or the empty sequence when no         *)
(* response arrived (error.response is undefined).                         *)
(***************************************************************************)

\* Calls made through the client in one run.
MaxApiCalls == 3

ApiMethods == {"login", "getDiscounts", "logout"}

Statuses == {200, 204, 401, 404, 500}

TransportResults == {[status |-> <<st>>] : st \in Statuses} \cup {[status |-> <<>>]}

\* The default validateStatus of axios.create: 2xx fulfils, the rest rejects.
ValidateStatus(status) == status >= 200 /\ status < 300

\* (response) => response
OnFulfilled(response) == [settle |-> "fulfilled", value |-> response, log |-> <<>>]

\* Mutant of OnRejected: a 401 is logged and handed back as a response.
OnRejected_Resolves401(err) ==
  IF err.status = <<401>>
  THEN [settle |-> "fulfilled", value |-> err, log |-> <<"Unauthorized access">>]
  ELSE [settle |-> "rejected", value |-> err, log |-> <<>>]

\* (error) => { if (error.response?.status === 401) console.error(...);
\*              return Promise.reject(error); }
OnRejected(err) ==
  [settle |-> "rejected",
   value |-> err,
   log |-> IF err.status = <<401>> THEN <<"Unauthorized access">> ELSE <<>>]

\* The response interceptor pair applied to what the transport delivered.
Intercept(result) ==
  IF result.status # <<>> /\ ValidateStatus(result.status[1])
  THEN OnFulfilled(result)
  ELSE OnRejected(result)

\* A caller invokes a method of the client; the request interceptor passes
\* the config on and the request goes out.
ApiCall(method) ==
  /\ apiNextId <= MaxApiCalls
  /\ apiWire' = apiWire \cup {[id |-> apiNextId, method |-> method]}
  /\ apiNextId' = apiNextId + 1
  /\ UNCHANGED <<apiSettled, consoleLog, windowLocation>>

\* The transport finishes `call` with `result`; the interceptor runs and the
\* promise the caller holds settles.
ApiRespond(call, result) ==
  /\ call \in apiWire
  /\ apiWire' = apiWire \ {call}
  /\ apiSettled' = apiSettled \cup
       {[id |-> call.id, method |-> call.method,
         settle |-> Intercept(result).settle, value |-> Intercept(result).value]}
  /\ consoleLog' = consoleLog \o Intercept(result).log
  /\ UNCHANGED <<apiNextId, windowLocation>>

ApiNext ==
  \/ \E method \in ApiMethods : ApiCall(method) /\ UNCHANGED <<listVars, discVars, loginVars, notifVars>>
  \/ \E call \in apiWire, result \in TransportResults :
       ApiRespond(call, result) /\ UNCHANGED <<listVars, discVars, loginVars, notifVars>>

SpecApi == Init /\ [][ApiNext]_vars

\* A result the caller must see as a failure: no response, or a status
\* outside 2xx.
FailedResult(result) == result.status = <<>> \/ result.status[1] \notin 200..299

\* C20: when a call ends with a failed response, 401 included, the caller's
\* promise is rejected with that very error; a 401 adds one line to the
\* console and any other failure adds none; no request is sent (no retry,
\* no logout) and the page is not redirected.
C20_InterceptorRejectsEveryFailure ==
  [][\A call \in apiWire, result \in TransportResults :
       (ApiRespond(call, result) /\ FailedResult(result)) =>
         /\ apiSettled' \ apiSettled =
              {[id |-> call.id, method |-> call.method,
                settle |-> "rejected", value |-> result]}
         /\ apiWire' = apiWire \ {call}
         /\ apiNextId' = apiNextId
         /\ windowLocation' = windowLocation
         /\ consoleLog' = IF result.status = <<401>>
                          THEN Append(consoleLog, "Unauthorized access")
                          ELSE consoleLog]_vars

\* Three calls have ended: one with 401, rejected and logged; one with 500,
\* rejected and not logged; one with a 2xx response, fulfilled.
C20_Witness ==
  /\ apiWire = {}
  /\ consoleLog = <<"Unauthorized access">>
  /\ \E c \in apiSettled : c.settle = "rejected" /\ c.value.status = <<401>>
  /\ \E c \in apiSettled : c.settle = "rejected" /\ c.value.status = <<500>>
  /\ \E c \in apiSettled : c.settle = "fulfilled"

(***************************************************************************)
(* LoginPage, as its test drives it                                        *)
(*                                                                         *)
(* A rejection of login carries response.data.detail as a one-element      *)
(* sequence, or the empty sequence when it has none.                       *)
(***************************************************************************)

\* Login calls made in one run.
MaxLogins == 3

LoginNames == {"", "testuser"}

LoginPasswords == {"", "testpass", "wrongpass"}

LoginRejections ==
  {[detail |-> <<"Invalid credentials">>], [detail |-> <<"First error">>],
   [detail |-> <<>>]}

\* Mutant of LoginArgs: the two fields change places.
LoginArgs_Swapped(username, password) ==
  [username |-> password, password |-> username]

\* login(username, password)
LoginArgs(username, password) == [username |-> username, password |-> password]

\* Mutant of LoginErrorMessage: the fixed text is shown whatever was rejected.
LoginErrorMessage_AlwaysGeneric(rejection) == "Login failed. Please try again."

\* The message shown for a rejected login.
LoginErrorMessage(rejection) ==
  IF rejection.detail # <<>> THEN rejection.detail[1]
  ELSE "Login failed. Please try again."

\* fireEvent.change on the username and the password field.
SetUsername(text) ==
  /\ lgRoute = "/login"
  /\ lgUsername' = text
  /\ UNCHANGED <<lgRoute, lgPassword, lgError, lgLoading, lgCall, lgAttempts>>

SetPassword(text) ==
  /\ lgRoute = "/login"
  /\ lgPassword' = text
  /\ UNCHANGED <<lgRoute, lgUsername, lgError, lgLoading, lgCall, lgAttempts>>

\* fireEvent.click on Sign in; the button is disabled while a login is in
\* flight.  With both fields filled the click calls login.  With a field
\* empty the tests expect both outcomes: 'prevents form submission with
\* empty fields' expects no call, the loading, generic-error and clears-error
\* tests expect the call; `validates` says which one the click has.
LoginSubmit(validates) ==
  /\ lgRoute = "/login"
  /\ ~lgLoading
  /\ lgAttempts < MaxLogins
  /\ IF validates /\ (lgUsername = "" \/ lgPassword = "")
     THEN UNCHANGED <<lgRoute, lgUsername, lgPassword, lgError, lgLoading, lgCall, lgAttempts>>
     ELSE /\ lgAttempts' = lgAttempts + 1
          /\ lgLoading' = TRUE
          /\ lgError' = ""
          /\ lgCall' = <<LoginArgs(lgUsername, lgPassword)>>
          /\ UNCHANGED <<lgRoute, lgUsername, lgPassword>>

\* login resolved: navigate('/dashboard').
LoginResolved ==
  /\ lgCall # <<>>
  /\ lgCall' = <<>>
  /\ lgLoading' = FALSE
  /\ lgRoute' = "/dashboard"
  /\ UNCHANGED <<lgUsername, lgPassword, lgError, lgAttempts>>

\* login rejected.
LoginRejected(rejection) ==
  /\ lgCall # <<>>
  /\ lgCall' = <<>>
  /\ lgLoading' = FALSE
  /\ lgError' = LoginErrorMessage(rejection)
  /\ UNCHANGED <<lgRoute, lgUsername, lgPassword, lgAttempts>>

\* fireEvent.click on "create a new account": navigate('/register').
GoToRegister ==
  /\ lgRoute = "/login"
  /\ lgRoute' = "/register"
  /\ UNCHANGED <<lgUsername, lgPassword, lgError, lgLoading, lgCall, lgAttempts>>

LoginNext ==
  \/ \E text \in LoginNames : SetUsername(text) /\ UNCHANGED <<listVars, discVars, apiVars, notifVars>>
  \/ \E text \in LoginPasswords : SetPassword(text) /\ UNCHANGED <<listVars, discVars, apiVars, notifVars>>
  \/ \E validates \in BOOLEAN :
       LoginSubmit(validates) /\ UNCHANGED <<listVars, discVars, apiVars, notifVars>>
  \/ LoginResolved /\ UNCHANGED <<listVars, discVars, apiVars, notifVars>>
  \/ \E rejection \in LoginRejections :
       LoginRejected(rejection) /\ UNCHANGED <<listVars, discVars, apiVars, notifVars>>
  \/ GoToRegister /\ UNCHANGED <<listVars, discVars, apiVars, notifVars>>

SpecLogin == Init /\ [][LoginNext]_vars

\* C21: a login call starts only by Sign in, with the username and the
\* password the form holds at that moment; Sign in with both fields filled
\* starts one, and no Sign in navigates; the route becomes /dashboard only
\* in the step in which the login call resolves; a rejected login leaves
\* the route alone.
C21_LoginThenNavigate ==
  [][/\ (lgCall = <<>> /\ lgCall' # <<>>) =>
          /\ \E validates \in BOOLEAN : LoginSubmit(validates)
          /\ lgCall' = <<[username |-> lgUsername, password |-> lgPassword]>>
     /\ \A validates \in BOOLEAN :
          LoginSubmit(validates) =>
            /\ lgRoute' = lgRoute
            /\ (lgUsername # "" /\ lgPassword # "") => (lgCall = <<>> /\ lgCall' # <<>>)
     /\ (lgRoute' = "/dashboard" /\ lgRoute # "/dashboard") =>
          lgCall # <<>> /\ LoginResolved
     /\ \A rejection \in LoginRejections :
          LoginRejected(rejection) => lgRoute' = lgRoute /\ lgRoute' # "/dashboard"]_vars

\* After a rejected attempt the login of testuser/testpass has resolved and
\* the page has navigated to the dashboard.
C21_Witness ==
  /\ lgRoute = "/dashboard"
  /\ lgUsername = "testuser"
  /\ lgPassword = "testpass"
  /\ lgAttempts = 2
  /\ lgCall = <<>>

\* C22: a rejected login shows the detail of the rejection when it has one
\* and 'Login failed. Please try again.' otherwise; the step in which a new
\* login call starts clears the message of the attempt before.
C22_LoginErrorMessage ==
  [][/\ \A rejection \in LoginRejections :
          LoginRejected(rejection) =>
            lgError' = IF rejection.detail = <<>>
                       THEN "Login failed. Please try again."
                       ELSE rejection.detail[1]
     /\ (lgCall = <<>> /\ lgCall' # <<>>) => lgError' = ""]_vars

\* A first attempt was rejected with a detail; the second attempt is in
\* flight and the message is gone.
C22_Witness ==
  /\ lgAttempts = 2
  /\ lgCall # <<>>
  /\ lgLoading
  /\ lgError = ""

(***************************************************************************)
(* ShoppingListDetail: overlapping fetches, the error slot, the draft     *)
(***************************************************************************)

\* C23: every successful items fetch response replaces items with its data
\* when it resolves, whatever else is in flight and whichever fetch was
\* issued first: there is no cancellation and no sequencing.
C23_EveryFetchResponseReplacesItems ==
  [][\A r \in pending :
       (r.kind = "getItems" /\ location = "list" /\ ResolveOk(r)) =>
         items' = r.items]_vars

\* Nothing has failed and nothing is in flight, and the view shows the
\* response of a fetch for the current list that is not what the backend
\* holds: a fetch issued earlier resolved after a later one.
C23_Witness ==
  /\ location = "list"
  /\ pending = {}
  /\ error = ""
  /\ run = "mixed"
  /\ itemsFetch # NoFetch
  /\ itemsFetch.lid = CurrentListId
  /\ items = itemsFetch.data
  /\ items # srvItems[CurrentListId]

\* C24: error is only ever written with a non-empty message, and once it is
\* non-empty it stays non-empty through every later step.
C24_ErrorIsNeverCleared ==
  [][(error' # error \/ error # "") => error' # ""]_vars

\* A request failed, and afterwards a mutation sent on its own and its
\* refetch succeeded: the message is still shown.
C24_Witness ==
  /\ location = "list"
  /\ error # ""
  /\ run = "single"
  /\ pending = {}
  /\ items = srvItems[CurrentListId]

\* C25: when saveEdit succeeds the draft slot is empty right afterwards,
\* whatever it held, the draft of another item included.
C25_SaveSuccessEmptiesDraftSlot ==
  [][\A r \in pending :
       (/\ r.op = "saveEdit" /\ r.kind = "updateItem"
        /\ location = "list" /\ ResolveOk(r)) =>
         editingItem' = NoItem]_vars

\* The save of one item has been served and is about to resolve while the
\* draft slot holds another item.
C25_Witness ==
  \E r \in pending :
    /\ r.op = "saveEdit" /\ r.kind = "updateItem"
    /\ location = "list"
    /\ editingItem # NoItem
    /\ editingItem.id # r.item
    /\ ENABLED ResolveOk(r)

\* C26 as claimed: whenever the draft slot is non-empty, its id is the id of
\* an item of the current items collection.
C26_DraftIsOfAnItemOnScreen ==
  (location = "list" /\ editingItem # NoItem) =>
    \E it \in ItemSet : it.id = editingItem.id

\* The flag the backend holds for item `itemId` of list `lid`.
ServerFlagsOf(lid, itemId) ==
  {srvItems[lid][i].is_completed :
     i \in {j \in 1..Len(srvItems[lid]) : srvItems[lid][j].id = itemId}}

\* C27: the toggle sends the negation of the flag of the item as rendered,
\* whatever the backend holds, and the backend sets the flag to the value
\* sent; so two toggles of one item sent from the same rendered items carry
\* the same value and leave the backend's flag flipped once.
C27_ToggleNegatesRenderedFlag ==
  [][/\ \A item \in ItemSet :
          HandleToggleComplete(item) =>
            \A r \in SentInStep : r.payload = [is_completed |-> ~item.is_completed]
     /\ \A r \in pending :
          (/\ r.op = "toggle" /\ r.kind = "updateItem"
           /\ ServerAccepts(r) /\ ServerProcess(r)) =>
            ServerFlagsOf(r.lid, r.item)' = {r.payload.is_completed}]_vars

\* Two toggles of one item were sent while it was rendered as not completed
\* and the backend has applied both: each carried true, the backend holds
\* true, and the item on screen is still not completed.
C27_Witness ==
  \E r, q \in pending :
    /\ r.id # q.id
    /\ r.op = "toggle" /\ r.kind = "updateItem" /\ r.stage = "done"
    /\ q.op = "toggle" /\ q.kind = "updateItem" /\ q.stage = "done"
    /\ r.lid = q.lid /\ r.item = q.item
    /\ r.payload = q.payload
    /\ r.payload.is_completed
    /\ ServerFlagsOf(r.lid, r.item) = {TRUE}
    /\ location = "list"
    /\ \E it \in ItemSet : it.id = r.item /\ ~it.is_completed

(***************************************************************************)
(* NotificationsPage                                                       *)
(*                                                                         *)
(* A handler that awaits keeps the `notifications` of the render it was    *)
(* called in: a request carries that value as `closure`, together with    *)
(* the fetch it derives from (`origin`).  The requests of one              *)
(* handleMarkAllAsRead share a `group`.  The backend is modelled from the *)
(* REST contract.                                                          *)
(***************************************************************************)

\* Requests the page sends in one run.
MaxNotifRequests == 4

Filters == {"all", "unread", "read"}

NoOrigin == <<>>

NRequest(id, kind, op, target, unreadOnly, closure, origin, group) ==
  [id |-> id, kind |-> kind, op |-> op, target |-> target,
   unreadOnly |-> unreadOnly, closure |-> closure, origin |-> origin,
   group |-> group, stage |-> "sent", data |-> <<>>]

IsUnread(n) == ~n.is_read

IsRead(n) == n.is_read

\* GET /notifications?unread_only
NotificationsResponse(unreadOnly) ==
  IF unreadOnly THEN SelectSeq(nSrv, IsUnread) ELSE nSrv

NServerAccepts(r) ==
  r.kind = "getNotifications" \/ \E i \in 1..Len(nSrv) : nSrv[i].id = r.target

\* notifications.map(n => n.id === notificationId ? {...n, is_read: true} : n)
MarkedRead(ns, notificationId) ==
  [i \in 1..Len(ns) |->
     IF ns[i].id = notificationId THEN [ns[i] EXCEPT !.is_read = TRUE] ELSE ns[i]]

\* notifications.map(n => ({...n, is_read: true}))
AllMarkedRead(ns) == [i \in 1..Len(ns) |-> [ns[i] EXCEPT !.is_read = TRUE]]

\* notifications.filter(n => n.id !== notificationId)
Without(ns, notificationId) ==
  LET Other(n) == n.id # notificationId IN SelectSeq(ns, Other)

\* The backend handles request r.
NServerProcess(r) ==
  /\ r \in nPending
  /\ r.stage = "sent"
  /\ IF ~NServerAccepts(r)
     THEN /\ nPending' = (nPending \ {r}) \cup {[r EXCEPT !.stage = "rejected"]}
          /\ nSrv' = nSrv
     ELSE /\ nPending' = (nPending \ {r}) \cup
               {[r EXCEPT !.stage = "done",
                          !.data = IF r.kind = "getNotifications"
                                   THEN NotificationsResponse(r.unreadOnly)
                                   ELSE <<>>]}
          /\ nSrv' = CASE r.kind = "markRead" -> MarkedRead(nSrv, r.target)
                       [] r.kind = "delete" -> Without(nSrv, r.target)
                       [] OTHER -> nSrv
  /\ UNCHANGED <<nMounted, nLocation, nNotifications, nIsLoading, nError, nFilter, nNextId,
                 nLastFetch, nOk>>

\* params.unread_only of fetchNotifications.
UnreadOnly(filter) == filter = "unread"

\* fetchNotifications as the effect of a render with `filter` calls it.
FetchRequest(filter) ==
  NRequest(nNextId, "getNotifications", "fetch", 0, UnreadOnly(filter), <<>>,
           NoOrigin, nNextId)

\* The initial run of useEffect(() => { fetchNotifications(); }, [filter]).
NotificationsMount ==
  /\ ~nMounted
  /\ nLocation = "notifications"
  /\ nMounted' = TRUE
  /\ nPending' = nPending \cup {FetchRequest(nFilter)}
  /\ nNextId' = nNextId + 1
  /\ UNCHANGED <<nLocation, nNotifications, nIsLoading, nError, nFilter, nSrv, nLastFetch, nOk>>

\* if (isLoading) return the spinner
NRendered == nMounted /\ ~nIsLoading

\* onClick of "Back to Dashboard": navigate('/dashboard') unmounts the page.
\* What its requests in flight bring afterwards is set on no view.
NHandleBack ==
  /\ NRendered
  /\ nLocation' = "dashboard"
  /\ nMounted' = FALSE
  /\ UNCHANGED <<nNotifications, nIsLoading, nError, nFilter, nPending, nNextId,
                 nSrv, nLastFetch, nOk>>

\* onClick of a filter tab, and the effect on [filter] of the render after.
SetFilter(filter) ==
  /\ NRendered
  /\ filter # nFilter
  /\ nNextId <= MaxNotifRequests
  /\ nFilter' = filter
  /\ nPending' = nPending \cup {FetchRequest(filter)}
  /\ nNextId' = nNextId + 1
  /\ nOk' = [marked |-> {}, deleted |-> {}]
  /\ UNCHANGED <<nMounted, nLocation, nNotifications, nIsLoading, nError, nSrv, nLastFetch>>

\* filteredNotifications
FilteredNotifications ==
  CASE nFilter = "unread" -> SelectSeq(nNotifications, IsUnread)
    [] nFilter = "read" -> SelectSeq(nNotifications, IsRead)
    [] OTHER -> nNotifications

RowSet == {FilteredNotifications[i] : i \in 1..Len(FilteredNotifications)}

\* unreadCount
UnreadCount == Len(SelectSeq(nNotifications, IsUnread))

\* onClick of Mark as Read in the row of `n`.
HandleMarkAsRead(n) ==
  /\ NRendered
  /\ n \in RowSet
  /\ ~n.is_read
  /\ nNextId <= MaxNotifRequests
  /\ nPending' = nPending \cup
       {NRequest(nNextId, "markRead", "markAsRead", n.id, FALSE, nNotifications,
                 nLastFetch, nNextId)}
  /\ nNextId' = nNextId + 1
  /\ UNCHANGED <<nMounted, nLocation, nNotifications, nIsLoading, nError, nFilter, nSrv,
                 nLastFetch, nOk>>

\* onClick of Mark All as Read: one request per unread notification, awaited
\* together.
HandleMarkAllAsRead ==
  /\ NRendered
  /\ UnreadCount > 0
  /\ nNextId + UnreadCount - 1 <= MaxNotifRequests
  /\ LET unreadNotifications == SelectSeq(nNotifications, IsUnread)
     IN nPending' = nPending \cup
          {NRequest(nNextId + i - 1, "markRead", "markAll",
                    unreadNotifications[i].id, FALSE, nNotifications, nLastFetch,
                    nNextId) : i \in 1..Len(unreadNotifications)}
  /\ nNextId' = nNextId + UnreadCount
  /\ UNCHANGED <<nMounted, nLocation, nNotifications, nIsLoading, nError, nFilter, nSrv,
                 nLastFetch, nOk>>

\* onClick of Delete in the row of `n`; `confirmed` is confirm()'s answer.
HandleDeleteNotification(n, confirmed) ==
  /\ NRendered
  /\ n \in RowSet
  /\ IF ~confirmed
     THEN UNCHANGED <<nPending, nNextId>>
     ELSE /\ nNextId <= MaxNotifRequests
          /\ nPending' = nPending \cup
               {NRequest(nNextId, "delete", "delete", n.id, FALSE, nNotifications,
                         nLastFetch, nNextId)}
          /\ nNextId' = nNextId + 1
  /\ UNCHANGED <<nMounted, nLocation, nNotifications, nIsLoading, nError, nFilter, nSrv,
                 nLastFetch, nOk>>

\* The requests awaited together with r.
Group(r) == {q \in nPending : q.group = r.group /\ q.op = r.op}

\* setNotifications(...) after the await of the handler that sent r.
NotificationsAfter(r) ==
  CASE r.op = "fetch" -> r.data
    [] r.op = "markAsRead" -> MarkedRead(r.closure, r.target)
    [] r.op = "markAll" -> AllMarkedRead(r.closure)
    [] OTHER -> Without(r.closure, r.target)

\* Mutant of LoadingAfterSettle: only a successful fetch ends loading.
LoadingAfterSettle_OnSuccessOnly(r, ok, loading) ==
  IF r.op = "fetch" /\ ok THEN FALSE ELSE loading

\* finally { setIsLoading(false) } of fetchNotifications.
LoadingAfterSettle(r, ok, loading) == IF r.op = "fetch" THEN FALSE ELSE loading

\* The await of the handler that sent r returns: every request it awaits
\* has been answered with success.
NResolveOk(r) ==
  /\ r \in nPending
  /\ r.op # "abandoned"
  /\ \A q \in Group(r) : q.stage = "done"
  /\ nPending' = nPending \ Group(r)
  /\ IF nMounted
     THEN /\ nNotifications' = NotificationsAfter(r)
          /\ nIsLoading' = LoadingAfterSettle(r, TRUE, nIsLoading)
          /\ nLastFetch' = IF r.op = "fetch" THEN <<r.unreadOnly>> ELSE r.origin
          /\ nOk' = CASE r.op = "fetch" -> [marked |-> {}, deleted |-> {}]
                      [] r.op = "delete" -> [nOk EXCEPT !.deleted = @ \cup {r.target}]
                      [] OTHER -> [nOk EXCEPT !.marked = @ \cup {q.target : q \in Group(r)}]
     ELSE UNCHANGED <<nNotifications, nIsLoading, nLastFetch, nOk>>
  /\ UNCHANGED <<nMounted, nLocation, nError, nFilter, nNextId, nSrv>>

\* The message of each catch block.
NCatchMessage(r) ==
  CASE r.op = "fetch" -> "Failed to load notifications"
    [] r.op = "markAsRead" -> "Failed to mark notification as read"
    [] r.op = "markAll" -> "Failed to mark all notifications as read"
    [] OTHER -> "Failed to delete notification"

\* Request r fails (no answer, or a non-2xx answer): the catch block of its
\* handler runs; Promise.all rejects at once, and what the other requests of
\* the group bring later is dropped.
NResolveErr(r) ==
  /\ r \in nPending
  /\ r.op # "abandoned"
  /\ nPending' = (nPending \ Group(r)) \cup
                   {[q EXCEPT !.op = "abandoned"] : q \in Group(r) \ {r}}
  /\ IF nMounted
     THEN /\ nError' = NCatchMessage(r)
          /\ nIsLoading' = LoadingAfterSettle(r, FALSE, nIsLoading)
     ELSE UNCHANGED <<nError, nIsLoading>>
  /\ UNCHANGED <<nMounted, nLocation, nNotifications, nFilter, nNextId, nSrv, nLastFetch, nOk>>

\* A request of a Promise.all that has already rejected is answered, or
\* fails without an answer: nothing awaits it any more.
SettleAbandoned(r) ==
  /\ r \in nPending
  /\ r.op = "abandoned"
  /\ nPending' = nPending \ {r}
  /\ nOk' = IF nMounted /\ r.stage = "done"
            THEN [nOk EXCEPT !.marked = @ \cup {r.target}] ELSE nOk
  /\ UNCHANGED <<nMounted, nLocation, nNotifications, nIsLoading, nError, nFilter, nNextId,
                 nSrv, nLastFetch>>

NotifNext ==
  \/ NotificationsMount /\ UNCHANGED <<listVars, discVars, apiVars, loginVars>>
  \/ \E r \in nPending : NServerProcess(r) /\ UNCHANGED <<listVars, discVars, apiVars, loginVars>>
  \/ \E r \in nPending : NResolveOk(r) /\ UNCHANGED <<listVars, discVars, apiVars, loginVars>>
  \/ \E r \in nPending : NResolveErr(r) /\ UNCHANGED <<listVars, discVars, apiVars, loginVars>>
  \/ \E r \in nPending : SettleAbandoned(r) /\ UNCHANGED <<listVars, discVars, apiVars, loginVars>>
  \/ NHandleBack /\ UNCHANGED <<listVars, discVars, apiVars, loginVars>>
  \/ \E filter \in Filters : SetFilter(filter) /\ UNCHANGED <<listVars, discVars, apiVars, loginVars>>
  \/ \E n \in RowSet : HandleMarkAsRead(n) /\ UNCHANGED <<listVars, discVars, apiVars, loginVars>>
  \/ HandleMarkAllAsRead /\ UNCHANGED <<listVars, discVars, apiVars, loginVars>>
  \/ \E n \in RowSet, confirmed \in BOOLEAN :
       HandleDeleteNotification(n, confirmed) /\ UNCHANGED <<listVars, discVars, apiVars, loginVars>>

SpecNotifications == Init /\ [][NotifNext]_vars

(***************************************************************************)
(* Properties of the notifications page                                    *)
(***************************************************************************)

NotificationSet == {nNotifications[i] : i \in 1..Len(nNotifications)}

\* C28 as claimed: with no fetch issued or applied in between, once nothing
\* is in flight (and nothing has failed) every notification whose
\* mark-as-read succeeded is read locally and every notification whose
\* delete succeeded is absent.
C28_SettledPatchesAllApplied ==
  (nMounted /\ nPending = {} /\ nError = "") =>
    /\ \A n \in NotificationSet : n.id \in nOk.marked => n.is_read
    /\ \A n \in NotificationSet : n.id \notin nOk.deleted

\* C29 as claimed: once nothing is in flight (and nothing has failed), the
\* local collection derives from a fetch made with unread_only exactly when
\* the selected filter is 'unread'.
C29_CollectionIsOfSelectedFilter ==
  (nMounted /\ nPending = {} /\ nError = "" /\ nLastFetch # <<>>) =>
    nLastFetch[1] = (nFilter = "unread")

(***************************************************************************)
(* The loading flag of the three pages                                     *)
(*                                                                         *)
(* One page is open in a run: the first mount decides which, and the page  *)
(* then runs every operation it has.  Every request that is in flight is   *)
(* eventually answered or fails.                                           *)
(***************************************************************************)

\* The notifications page was not opened in this run.
NotificationsUnopened == ~nMounted /\ nLocation = "notifications"

ListPageOnly == dFetch = "idle" /\ NotificationsUnopened

DiscountsPageOnly == ~mounted /\ NotificationsUnopened

NotificationsPageOnly == ~mounted /\ dFetch = "idle"

\* A request of the list page settles.
ListSettle ==
  \E r \in pending : (ResolveOk(r) \/ ResolveErr(r)) /\ UNCHANGED <<discVars, apiVars, loginVars, notifVars>>

\* The fetch of the discounts page settles.
DiscountsSettle ==
  (FetchDiscountsErr \/ \E data \in DiscountResponses : FetchDiscountsOk(data)) /\ UNCHANGED <<listVars, apiVars, loginVars, notifVars>>

\* A request of the notifications page settles.
NotificationsSettle ==
  \E r \in nPending : (NResolveOk(r) \/ NResolveErr(r) \/ SettleAbandoned(r)) /\ UNCHANGED <<listVars, discVars, apiVars, loginVars>>

LoadingNext ==
  \/ ListPageOnly /\ Mount /\ UNCHANGED <<discVars, apiVars, loginVars, notifVars>>
  \/ ListPageOnly /\ (\E param \in ListIdParams : ChangeListId(param)) /\ UNCHANGED <<discVars, apiVars, loginVars, notifVars>>
  \/ ListPageOnly /\ (\E r \in pending : ServerProcess(r)) /\ UNCHANGED <<discVars, apiVars, loginVars, notifVars>>
  \/ ListPageOnly /\ (\E r \in pending : ResolveOk(r)) /\ UNCHANGED <<discVars, apiVars, loginVars, notifVars>>
  \/ ListPageOnly /\ (\E r \in pending : ResolveErr(r)) /\ UNCHANGED <<discVars, apiVars, loginVars, notifVars>>
  \/ ListPageOnly /\ (\E text \in NameInputs : SetNewItemName(text)) /\ UNCHANGED <<discVars, apiVars, loginVars, notifVars>>
  \/ ListPageOnly /\ (\E raw \in QuantityInputs : SetNewItemQuantity(raw)) /\ UNCHANGED <<discVars, apiVars, loginVars, notifVars>>
  \/ ListPageOnly /\ (\E text \in UnitInputs : SetNewItemUnit(text)) /\ UNCHANGED <<discVars, apiVars, loginVars, notifVars>>
  \/ ListPageOnly /\ HandleAddItem /\ UNCHANGED <<discVars, apiVars, loginVars, notifVars>>
  \/ ListPageOnly /\ (\E item \in ItemSet : HandleToggleComplete(item)) /\ UNCHANGED <<discVars, apiVars, loginVars, notifVars>>
  \/ ListPageOnly /\ (\E item \in ItemSet : HandleEditItem(item)) /\ UNCHANGED <<discVars, apiVars, loginVars, notifVars>>
  \/ ListPageOnly /\ (\E text \in NameInputs : EditDraft("name", text)) /\ UNCHANGED <<discVars, apiVars, loginVars, notifVars>>
  \/ ListPageOnly /\ (\E raw \in QuantityInputs : EditDraft("quantity", QuantityOrOne(raw))) /\ UNCHANGED <<discVars, apiVars, loginVars, notifVars>>
  \/ ListPageOnly /\ (\E text \in UnitInputs : EditDraft("unit", text)) /\ UNCHANGED <<discVars, apiVars, loginVars, notifVars>>
  \/ ListPageOnly /\ CancelEdit /\ UNCHANGED <<discVars, apiVars, loginVars, notifVars>>
  \/ ListPageOnly /\ HandleSaveEdit /\ UNCHANGED <<discVars, apiVars, loginVars, notifVars>>
  \/ ListPageOnly /\ (\E item \in ItemSet, confirmed \in BOOLEAN : HandleDeleteItem(item, confirmed)) /\ UNCHANGED <<discVars, apiVars, loginVars, notifVars>>
  \/ ListPageOnly /\ (\E confirmed \in BOOLEAN : HandleDeleteList(confirmed)) /\ UNCHANGED <<discVars, apiVars, loginVars, notifVars>>
  \/ ListPageOnly /\ HandleBack /\ UNCHANGED <<discVars, apiVars, loginVars, notifVars>>
  \/ DiscountsPageOnly /\ DiscountsMount /\ UNCHANGED <<listVars, apiVars, loginVars, notifVars>>
  \/ DiscountsPageOnly /\ (\E data \in DiscountResponses : FetchDiscountsOk(data)) /\ UNCHANGED <<listVars, apiVars, loginVars, notifVars>>
  \/ DiscountsPageOnly /\ FetchDiscountsErr /\ UNCHANGED <<listVars, apiVars, loginVars, notifVars>>
  \/ DiscountsPageOnly /\ DiscountsEffect /\ UNCHANGED <<listVars, apiVars, loginVars, notifVars>>
  \/ DiscountsPageOnly /\ (\E term \in SearchInputs : SetSearchTerm(term)) /\ UNCHANGED <<listVars, apiVars, loginVars, notifVars>>
  \/ DiscountsPageOnly /\ (\E store \in StoreOptions : SetSelectedStore(store)) /\ UNCHANGED <<listVars, apiVars, loginVars, notifVars>>
  \/ DiscountsPageOnly /\ (\E key \in SortKeys : SetSortBy(key)) /\ UNCHANGED <<listVars, apiVars, loginVars, notifVars>>
  \/ NotificationsPageOnly /\ NotificationsMount /\ UNCHANGED <<listVars, discVars, apiVars, loginVars>>
  \/ NotificationsPageOnly /\ (\E r \in nPending : NServerProcess(r)) /\ UNCHANGED <<listVars, discVars, apiVars, loginVars>>
  \/ NotificationsPageOnly /\ (\E r \in nPending : NResolveOk(r)) /\ UNCHANGED <<listVars, discVars, apiVars, loginVars>>
  \/ NotificationsPageOnly /\ (\E r \in nPending : NResolveErr(r)) /\ UNCHANGED <<listVars, discVars, apiVars, loginVars>>
  \/ NotificationsPageOnly /\ (\E r \in nPending : SettleAbandoned(r)) /\ UNCHANGED <<listVars, discVars, apiVars, loginVars>>
  \/ NotificationsPageOnly /\ NHandleBack /\ UNCHANGED <<listVars, discVars, apiVars, loginVars>>
  \/ NotificationsPageOnly /\ (\E filter \in Filters : SetFilter(filter)) /\ UNCHANGED <<listVars, discVars, apiVars, loginVars>>
  \/ NotificationsPageOnly /\ (\E n \in RowSet : HandleMarkAsRead(n)) /\ UNCHANGED <<listVars, discVars, apiVars, loginVars>>
  \/ NotificationsPageOnly /\ HandleMarkAllAsRead /\ UNCHANGED <<listVars, discVars, apiVars, loginVars>>
  \/ NotificationsPageOnly /\ (\E n \in RowSet, confirmed \in BOOLEAN : HandleDeleteNotification(n, confirmed)) /\ UNCHANGED <<listVars, discVars, apiVars, loginVars>>

SpecLoading ==
  /\ Init
  /\ [][LoadingNext]_vars
  /\ WF_vars(ListSettle)
  /\ WF_vars(DiscountsSettle)
  /\ WF_vars(NotificationsSettle)

\* The items fetches, and the notifications fetches, that settle in a step.
ItemsFetchSettled ==
  {r \in pending : r.kind = "getItems" /\ \A q \in pending' : q.id # r.id}

NotificationsFetchSettled ==
  {r \in nPending : r.op = "fetch" /\ \A q \in nPending' : q.id # r.id}

\* What a step may do to the three loading flags.
LoadingStep ==
  /\ ~isLoading => ~isLoading'
  /\ ~dIsLoading => ~dIsLoading'
  /\ ~nIsLoading => ~nIsLoading'
  /\ (location = "list" /\ ItemsFetchSettled # {}) => ~isLoading'
  /\ (isLoading /\ ~isLoading') => ItemsFetchSettled # {}
  /\ (dFetch = "sent" /\ dFetch' # "sent") <=> (dIsLoading /\ ~dIsLoading')
  /\ NotificationsFetchSettled # {} => ~nIsLoading'
  /\ (nIsLoading /\ ~nIsLoading') => NotificationsFetchSettled # {}

\* C30: on the list page, the discounts page and the notifications page the
\* loading flag starts true, becomes false in the step in which a fetch of
\* the page (the items fetch on the list page) settles, with success or with
\* failure, and in no other step, and is never true again after it was
\* false; every opened page eventually leaves loading.
C30_LoadingEndsOnceAndForAll ==
  /\ <<isLoading, dIsLoading, nIsLoading>> = <<TRUE, TRUE, TRUE>>
  /\ [][LoadingStep]_vars
  /\ mounted ~> ~isLoading
  /\ (dFetch # "idle") ~> ~dIsLoading
  /\ nMounted ~> ~nIsLoading

\* The first fetch of the notifications page failed and the page left
\* loading; the filter was changed since and its fetch is in flight with the
\* page still not loading.
C30_Witness ==
  /\ nMounted
  /\ ~nIsLoading
  /\ nError = "Failed to load notifications"
  /\ nLastFetch = <<>>
  /\ nFilter = "unread"
  /\ \E r \in nPending : r.op = "fetch"

====
